---- MODULE Spec2Model ----
(***************************************************************************)
(* Model of pgsqlmgr: the database synchronisation workflow                *)
(* (DatabaseSyncManager), its pre-flight availability check, database      *)
(* deletion (DatabaseManager.drop_database) and the delete-db command.     *)
(*                                                                         *)
(* External programs (psql, pg_dump, scp, ssh, brew, systemctl, ...) are   *)
(* the environment: every subprocess.run call is recorded in a log entry   *)
(* with the outcome the environment chose for it.  A function of the       *)
(* program is an operator that yields the SET of results it can produce,   *)
(* one per choice of the environment.                                      *)
(***************************************************************************)
EXTENDS Integers, Sequences, FiniteSets, TLC

VARIABLES
    op,         \* the operation in progress ("none" before any call)
    pc,         \* position inside the operation
    system,     \* platform.system() of the machine running the tool
    args,       \* arguments of the operation
    log,        \* commands issued by the latest helper call, in order
    issued,     \* every command issued since the operation began
    prompts,    \* interactive questions asked so far, with the answers
    steps,      \* steps of the operation run so far, in order, with their success
    lastCheck,  \* result of the latest _check_postgresql_availability call
    tempDir,    \* self.temp_dir and the directory behind it
    result,     \* the (success, message) pair returned, once returned
    raised,     \* exception that left the operation ("none" if none)
    exitCode,   \* exit code of a CLI command (-1 while running / not a CLI)
    loop,       \* the loop over the uninstall commands: table, position, errors
    config      \* the configuration object load_config built, if any

vars == <<op, pc, system, args, log, issued, prompts, steps, lastCheck,
          tempDir, result, raised, exitCode>>

(***************************************************************************)
(* Environment                                                             *)
(***************************************************************************)

\* ways a subprocess.run call can end: exit 0, exit non-zero,
\* subprocess.TimeoutExpired, FileNotFoundError (binary missing)
Outcomes == {"ok", "fail", "timeout", "notfound"}

Systems == {"Darwin", "Linux", "Windows"}

HostTypes == {"local", "ssh", "cloud"}

\* one subprocess.run call: the command, where it ran, its options, how it
\* ended and (an identifier of) the text it printed
Entry(via, cmd, opts, out, text) ==
    [via |-> via, cmd |-> cmd, opts |-> opts, out |-> out, text |-> text]

E(via, cmd, out) == Entry(via, cmd, {}, out, "none")

Ret(ok, msg) == [ok |-> ok, msg |-> msg]

Step(name, ok) == [step |-> name, ok |-> ok]

NoResult == [ok |-> FALSE, msg |-> "none"]

NoCheck ==
    [avail |-> FALSE, msg |-> "none", raised |-> FALSE, host |-> "none",
     auto |-> FALSE, cmds |-> <<>>, prompts |-> <<>>]

NoArgs ==
    [src |-> "none", dst |-> "none", db |-> <<>>, drop_existing |-> FALSE,
     data_only |-> FALSE, schema_only |-> FALSE, auto_install |-> FALSE,
     force |-> FALSE, backup |-> FALSE, dry_run |-> FALSE, cli |-> FALSE,
     srcName |-> "none", dstName |-> "none", dbs |-> {},
     file |-> [kind |-> "none", hosts |-> "absent", entries |-> {}],
     table |-> [columns |-> <<>>, rows |-> <<>>]]

NoLoop == [os |-> "none", i |-> 0, errors |-> 0]

(***************************************************************************)
(* config.py: the host configuration classes                               *)
(***************************************************************************)

\* fields of the pydantic models; reading any other attribute raises
\* AttributeError
ConfigFields(type) ==
    LET base == {"host", "port", "superuser", "database", "description"}
    IN CASE type = "local" -> base \cup {"type"}
         [] type = "ssh"   -> base \cup {"type", "ssh_config"}
         [] OTHER          -> base \cup {"type", "provider", "connection_string"}

(***************************************************************************)
(* db.py: PostgreSQLManager                                                *)
(***************************************************************************)

\* check_postgresql_installation: psql --version, locally or over ssh; every
\* way the command can fail reads as "not installed"
CheckPostgresqlInstallation(type) ==
    IF type \in {"local", "ssh"}
    THEN { [installed |-> (o = "ok"), cmds |-> <<E(type, "psql --version", o)>>] :
             o \in Outcomes }
    ELSE { [installed |-> FALSE, cmds |-> <<>>] }

\* what `brew services list` can print: lines of <<service, status>>
BrewListingIds == {"pg_started", "pg_stopped", "pg_stopped_redis_started", "no_pg"}

BrewListing(id) ==
    CASE id = "pg_started" -> << <<"postgresql@15", "started">> >>
      [] id = "pg_stopped" -> << <<"postgresql@15", "stopped">> >>
      [] id = "pg_stopped_redis_started" ->
            << <<"postgresql@15", "stopped">>, <<"redis", "started">> >>
      [] OTHER -> << <<"redis", "started">> >>

\* "postgresql" in result.stdout and "started" in result.stdout
BrewOutputSaysRunning(lines) ==
    /\ \E i \in 1..Len(lines) : lines[i][1] \in {"postgresql", "postgresql@15"}
    /\ \E i \in 1..Len(lines) : lines[i][2] = "started"

\* _check_local_service; none = the function fell off its end and returned
\* None (Darwin, brew exits non-zero), which the caller cannot unpack
CheckLocalService(sys) ==
    CASE sys = "Darwin" ->
            { [running |-> BrewOutputSaysRunning(BrewListing(l)), none |-> FALSE,
               cmds |-> <<Entry("local", "brew services list", {}, "ok", l)>>] :
                 l \in BrewListingIds }
            \cup { [running |-> FALSE, none |-> TRUE,
                    cmds |-> <<E("local", "brew services list", "fail")>>] }
            \cup { [running |-> FALSE, none |-> FALSE,
                    cmds |-> <<E("local", "brew services list", o)>>] :
                     o \in {"timeout", "notfound"} }
      [] sys = "Linux" ->
            { [running |-> (o = "ok"), none |-> FALSE,
               cmds |-> <<E("local", "systemctl is-active", o)>>] : o \in Outcomes }
      [] OTHER -> { [running |-> FALSE, none |-> FALSE, cmds |-> <<>>] }

\* _check_ssh_service
CheckSshService ==
    { [running |-> (o = "ok"), none |-> FALSE,
       cmds |-> <<E("ssh", "systemctl is-active", o)>>] : o \in Outcomes }

\* check_service_status
CheckServiceStatus(type, sys) ==
    CASE type = "local" -> CheckLocalService(sys)
      [] type = "ssh"   -> CheckSshService
      [] OTHER          -> { [running |-> FALSE, none |-> FALSE, cmds |-> <<>>] }

\* start_service (_start_local_service, _start_ssh_service)
StartService(type, sys) ==
    CASE type = "local" /\ sys = "Darwin" ->
            { [ok |-> (o = "ok"), cmds |-> <<E("local", "brew services start", o)>>] :
                o \in Outcomes }
      [] type = "local" /\ sys = "Linux" ->
            { [ok |-> (o = "ok"), cmds |-> <<E("local", "systemctl start", o)>>] :
                o \in Outcomes }
      [] type = "ssh" ->
            { [ok |-> (o = "ok"), cmds |-> <<E("ssh", "systemctl start", o)>>] :
                o \in Outcomes }
      [] OTHER -> { [ok |-> FALSE, cmds |-> <<>>] }

\* _setup_postgresql_user: one CREATE USER statement run over ssh
SetupPostgresqlUser ==
    { [ok |-> (o = "ok"), cmds |-> <<E("ssh", "create superuser", o)>>] :
        o \in Outcomes }

\* _install_macos: brew --version, brew install, brew services start; a start
\* that exits non-zero still counts as installed, one that raises does not
InstallMacos ==
    { [ok |-> FALSE, cmds |-> <<E("local", "brew --version", o)>>] :
        o \in Outcomes \ {"ok"} }
    \cup { [ok |-> FALSE, cmds |-> <<E("local", "brew --version", "ok"),
                                    E("local", "brew install", o)>>] :
             o \in Outcomes \ {"ok"} }
    \cup { [ok |-> (o \in {"ok", "fail"}),
            cmds |-> <<E("local", "brew --version", "ok"),
                       E("local", "brew install", "ok"),
                       E("local", "brew services start", o)>>] : o \in Outcomes }

\* _install_local_postgresql; _install_linux only prints instructions
InstallLocalPostgresql(sys) ==
    IF sys = "Darwin" THEN InstallMacos ELSE { [ok |-> FALSE, cmds |-> <<>>] }

\* what the remote `cat /etc/os-release || uname -s` can report
OsReports == {"ubuntu", "centos", "macos", "arch", "unparsable"}

\* _detect_ssh_os: "none" when the command fails or its output has neither an
\* ID= line nor "Darwin"
DetectSshOs ==
    { [os |-> IF r = "unparsable" THEN "none" ELSE r,
       cmds |-> <<Entry("ssh", "detect os", {}, "ok", r)>>] : r \in OsReports }
    \cup { [os |-> "none", cmds |-> <<E("ssh", "detect os", o)>>] :
             o \in Outcomes \ {"ok"} }

\* _get_installation_commands: the descriptions of the commands, in table order
GetInstallationCommands(os) ==
    CASE os \in {"ubuntu", "debian"} ->
            <<"Updating package list", "Installing PostgreSQL",
              "Starting PostgreSQL service", "Enabling PostgreSQL service">>
      [] os \in {"centos", "rhel", "fedora"} ->
            <<"Installing PostgreSQL", "Initializing database",
              "Starting PostgreSQL service", "Enabling PostgreSQL service">>
      [] os = "macos" ->
            <<"Installing PostgreSQL", "Starting PostgreSQL service">>
      [] os = "alpine" ->
            <<"Updating package index", "Installing PostgreSQL",
              "Initializing database", "Starting PostgreSQL service",
              "Adding to startup">>
      [] OTHER -> <<>>

\* the log of running the first n commands of a table, the last one ending in
\* `last` and the ones before it in exit 0
RunCommands(table, n, last) ==
    [i \in 1..n |-> E("ssh", table[i], IF i = n THEN last ELSE "ok")]

\* variant: a command that exits non-zero does not stop the loop
InstallPostgresqlByOsRunsAll(os) ==
    LET table == GetInstallationCommands(os)
    IN IF table = <<>>
       THEN { [ok |-> FALSE, raised |-> FALSE, cmds |-> <<>>] }
       ELSE { [ok |-> FALSE, raised |-> FALSE,
               cmds |-> [i \in 1..Len(table) |->
                           E("ssh", table[i], IF i = n THEN "fail" ELSE "ok")]] :
                n \in 1..Len(table) }
            \cup { [ok |-> TRUE, raised |-> FALSE,
                    cmds |-> RunCommands(table, Len(table), "ok")] }

\* _install_postgresql_by_os: one command at a time, stopping at the first
\* that does not exit 0; raised = subprocess.run raised (timeout, no ssh)
InstallPostgresqlByOs(os) ==
    LET table == GetInstallationCommands(os)
    IN IF table = <<>>
       THEN { [ok |-> FALSE, raised |-> FALSE, cmds |-> <<>>] }
       ELSE { [ok |-> FALSE, raised |-> (o # "fail"), cmds |-> RunCommands(table, n, o)] :
                n \in 1..Len(table), o \in Outcomes \ {"ok"} }
            \cup { [ok |-> TRUE, raised |-> FALSE,
                    cmds |-> RunCommands(table, Len(table), "ok")] }

\* _install_ssh_postgresql: detect the OS, install, then set up the superuser
InstallSshPostgresql ==
    UNION { IF d.os = "none"
            THEN { [ok |-> FALSE, cmds |-> d.cmds] }
            ELSE UNION { IF ~i.ok
                         THEN { [ok |-> FALSE, cmds |-> d.cmds \o i.cmds] }
                         ELSE { [ok |-> u.ok, cmds |-> d.cmds \o i.cmds \o u.cmds] :
                                  u \in SetupPostgresqlUser }
                         : i \in InstallPostgresqlByOs(d.os) }
            : d \in DetectSshOs }

\* install_postgresql
InstallPostgresql(type, sys) ==
    CASE type = "local" -> InstallLocalPostgresql(sys)
      [] type = "ssh"   -> InstallSshPostgresql
      [] OTHER          -> { [ok |-> FALSE, cmds |-> <<>>] }

(***************************************************************************)
(* sync.py: the pre-flight availability check                              *)
(***************************************************************************)

\* mutant: the answer to the question is not looked at
AutoOrAskIgnoresAnswer(auto, question) ==
    IF auto
    THEN { [go |-> TRUE, prompts |-> <<>>] }
    ELSE { [go |-> TRUE, prompts |-> <<[q |-> question, answer |-> a]>>] :
             a \in BOOLEAN }

\* `auto_install or Confirm.ask(question)`: the question is asked only when
\* auto_install is false; go = whether the remediation goes ahead
AutoOrAsk(auto, question) ==
    IF auto
    THEN { [go |-> TRUE, prompts |-> <<>>] }
    ELSE { [go |-> a, prompts |-> <<[q |-> question, answer |-> a]>>] :
             a \in BOOLEAN }

\* _verify_postgresql_authentication: `sudo -u <superuser> psql --list` over ssh
VerifyPostgresqlAuthentication ==
    { [ok |-> (o = "ok"), cmds |-> <<E("ssh", "psql --list", o)>>] : o \in Outcomes }

Chk(avail, msg, cmds, ps) ==
    [avail |-> avail, msg |-> msg, raised |-> FALSE, cmds |-> cmds, prompts |-> ps]

\* installed and running: an SSH host must also pass the access test, or have
\* its superuser set up
RunningBranch(type, auto, cmds) ==
    IF type # "ssh"
    THEN { Chk(TRUE, "PostgreSQL ready", cmds, <<>>) }
    ELSE UNION {
           IF v.ok
           THEN { Chk(TRUE, "PostgreSQL ready", cmds \o v.cmds, <<>>) }
           ELSE UNION {
                  IF ~a.go
                  THEN { Chk(FALSE, "PostgreSQL user authentication not configured",
                             cmds \o v.cmds, a.prompts) }
                  ELSE { IF u.ok
                         THEN Chk(TRUE, "PostgreSQL ready with user authentication",
                                  cmds \o v.cmds \o u.cmds, a.prompts)
                         ELSE Chk(FALSE, "Failed to setup user authentication",
                                  cmds \o v.cmds \o u.cmds, a.prompts) :
                           u \in SetupPostgresqlUser }
                  : a \in AutoOrAsk(auto, "setup user") }
           : v \in VerifyPostgresqlAuthentication }

\* installed but not running: offer to start the service
StoppedBranch(type, auto, sys, cmds) ==
    UNION {
      IF ~a.go
      THEN { Chk(FALSE, "PostgreSQL service not running", cmds, a.prompts) }
      ELSE { IF st.ok
             THEN Chk(TRUE, "PostgreSQL service started", cmds \o st.cmds, a.prompts)
             ELSE Chk(FALSE, "Failed to start PostgreSQL service",
                      cmds \o st.cmds, a.prompts) :
               st \in StartService(type, sys) }
      : a \in AutoOrAsk(auto, "start service") }

\* not installed: offer to install, then start the service
MissingBranch(type, auto, sys, cmds) ==
    UNION {
      IF ~a.go
      THEN { Chk(FALSE, "PostgreSQL not available", cmds, a.prompts) }
      ELSE UNION {
             IF ~i.ok
             THEN { Chk(FALSE, "Failed to install PostgreSQL", cmds \o i.cmds, a.prompts) }
             ELSE { IF st.ok
                    THEN Chk(TRUE, "PostgreSQL installed and started",
                             cmds \o i.cmds \o st.cmds, a.prompts)
                    ELSE Chk(FALSE, "PostgreSQL installed but failed to start service",
                             cmds \o i.cmds \o st.cmds, a.prompts) :
                      st \in StartService(type, sys) }
             : i \in InstallPostgresql(type, sys) }
      : a \in AutoOrAsk(auto, "install") }

\* _check_postgresql_availability(host_config, host_type, auto_install):
\* every result the call can have; raised = the call left by an exception
\* (check_service_status returned None and the unpacking failed)
CheckPostgresqlAvailability(type, auto, sys) ==
    UNION {
      IF ~ic.installed
      THEN MissingBranch(type, auto, sys, ic.cmds)
      ELSE UNION {
             IF sv.none
             THEN { [avail |-> FALSE, msg |-> "TypeError", raised |-> TRUE,
                     cmds |-> ic.cmds \o sv.cmds, prompts |-> <<>>] }
             ELSE IF sv.running
                  THEN RunningBranch(type, auto, ic.cmds \o sv.cmds)
                  ELSE StoppedBranch(type, auto, sys, ic.cmds \o sv.cmds)
             : sv \in CheckServiceStatus(type, sys) }
      : ic \in CheckPostgresqlInstallation(type) }

(***************************************************************************)
(* sync.py: dump, transfer, restore, cleanup                               *)
(***************************************************************************)

Res(ok, msg, cmds) == [ok |-> ok, msg |-> msg, cmds |-> cmds]

\* variant: each option is appended when its flag is set
DumpOptionsBoth(data_only, schema_only) ==
    (IF data_only THEN {"--data-only"} ELSE {})
    \cup (IF schema_only THEN {"--schema-only"} ELSE {})

\* the data/schema option a dump builder appends to pg_dump
DumpOptions(data_only, schema_only) ==
    IF data_only THEN {"--data-only"}
    ELSE IF schema_only THEN {"--schema-only"}
    ELSE {}

\* _create_local_dump: the command is built, then source_config.password is
\* read inside the try block, then pg_dump runs
CreateLocalDump(type, data_only, schema_only) ==
    IF "password" \notin ConfigFields(type)
    THEN { Res(FALSE, "Error creating dump", <<>>) }
    ELSE { Res(o = "ok",
               CASE o = "ok" -> "Database dump created"
                 [] o = "fail" -> "pg_dump failed"
                 [] o = "timeout" -> "Database dump timed out"
                 [] OTHER -> "pg_dump command not found",
               <<Entry("local", "pg_dump", DumpOptions(data_only, schema_only), o, "none")>>) :
             o \in Outcomes }

RaiseMsg(o, onTimeout, onError) == IF o = "timeout" THEN onTimeout ELSE onError

\* _create_ssh_dump: pg_dump on the remote host, scp download, rm of the
\* remote file (whose exit code is ignored, but which may raise)
CreateSshDump(data_only, schema_only) ==
    LET dump(o) == Entry("ssh", "pg_dump", DumpOptions(data_only, schema_only), o, "none")
        tmo == "SSH database dump timed out"
        err == "Error creating SSH dump"
    IN { Res(FALSE, IF o = "fail" THEN "SSH pg_dump failed" ELSE RaiseMsg(o, tmo, err),
             <<dump(o)>>) : o \in Outcomes \ {"ok"} }
       \cup { Res(FALSE, IF o = "fail" THEN "SCP download failed" ELSE RaiseMsg(o, tmo, err),
                  <<dump("ok"), E("local", "scp download", o)>>) :
                o \in Outcomes \ {"ok"} }
       \cup { Res(o \in {"ok", "fail"},
                  IF o \in {"ok", "fail"}
                  THEN "SSH database dump created and downloaded"
                  ELSE RaiseMsg(o, tmo, err),
                  <<dump("ok"), E("local", "scp download", "ok"),
                    E("ssh", "rm remote dump", o)>>) : o \in Outcomes }

\* _create_dump
CreateDump(src, data_only, schema_only) ==
    CASE src = "local" -> CreateLocalDump(src, data_only, schema_only)
      [] src = "ssh"   -> CreateSshDump(data_only, schema_only)
      [] OTHER         -> { Res(FALSE, "Unsupported source host type", <<>>) }

\* mutant: only the destination is looked at
TransferNeededDestOnly(src, dst) == dst = "ssh"

\* the `if isinstance(source, SSHHost) or isinstance(destination, SSHHost)`
\* that guards step 2 of sync_database
TransferNeeded(src, dst) == src = "ssh" \/ dst = "ssh"

\* whether _transfer_dump_file uploads the dump
UploadNeeded(src, dst) == dst = "ssh"

\* _transfer_dump_file
TransferDumpFile(src, dst) ==
    IF src = "local" /\ dst = "local"
    THEN { Res(TRUE, "No file transfer needed for local-to-local sync", <<>>) }
    ELSE IF UploadNeeded(src, dst)
    THEN { Res(o = "ok",
               CASE o = "ok" -> "Dump file uploaded"
                 [] o = "fail" -> "SCP upload failed"
                 [] o = "timeout" -> "File upload timed out"
                 [] OTHER -> "Error uploading file",
               <<E("local", "scp upload", o)>>) : o \in Outcomes }
    ELSE { Res(TRUE, "File transfer handled by source SSH download", <<>>) }

\* stderr of a createdb that exits non-zero
CreatedbErrors == {"already exists", "ALREADY EXISTS", "permission denied"}

LowerText(t) == IF t = "ALREADY EXISTS" THEN "already exists" ELSE t

\* "already exists" in <text>
HasAlreadyExists(t) == t = "already exists"

\* the createdb calls a restore can see: exit 0, or non-zero with a stderr
CreatedbRuns(via) ==
    { E(via, "createdb", o) : o \in Outcomes \ {"fail"} }
    \cup { Entry(via, "createdb", {}, "fail", t) : t \in CreatedbErrors }

\* the optional dropdb --if-exists before a restore; its exit code is ignored
DropRuns(via, drop_existing) ==
    IF drop_existing THEN { <<E(via, "dropdb", o)>> : o \in Outcomes } ELSE { <<>> }

Raises(cmds) == cmds # <<>> /\ cmds[Len(cmds)].out \in {"timeout", "notfound"}

\* _restore_local_dump: destination_config.password is read first, inside the
\* try block; then dropdb (optional), createdb, psql
RestoreLocalDump(type, drop_existing) ==
    LET tmo == "Database restore timed out"
        err == "PostgreSQL command not found"
    IN IF "password" \notin ConfigFields(type)
       THEN { Res(FALSE, "Error restoring dump", <<>>) }
       ELSE UNION {
              IF Raises(d)
              THEN { Res(FALSE, RaiseMsg(d[1].out, tmo, err), d) }
              ELSE UNION {
                     IF Raises(<<c>>)
                     THEN { Res(FALSE, RaiseMsg(c.out, tmo, err), d \o <<c>>) }
                     ELSE IF c.out = "fail" /\ ~HasAlreadyExists(c.text)
                     THEN { Res(FALSE, "Failed to create database", d \o <<c>>) }
                     ELSE { Res(o = "ok",
                                CASE o = "ok" -> "Database restored successfully"
                                  [] o = "fail" -> "psql restore failed"
                                  [] OTHER -> RaiseMsg(o, tmo, err),
                                d \o <<c, E("local", "psql --file", o)>>) :
                              o \in Outcomes }
                     : c \in CreatedbRuns("local") }
              : d \in DropRuns("local", drop_existing) }

\* _restore_ssh_dump: dropdb (optional), createdb, psql and rm of the remote
\* dump, all over ssh; the rm runs before the psql exit code is looked at
RestoreSshDump(drop_existing) ==
    LET tmo == "SSH database restore timed out"
        err == "Error restoring SSH dump"
    IN UNION {
         IF Raises(d)
         THEN { Res(FALSE, RaiseMsg(d[1].out, tmo, err), d) }
         ELSE UNION {
                IF Raises(<<c>>)
                THEN { Res(FALSE, RaiseMsg(c.out, tmo, err), d \o <<c>>) }
                ELSE IF /\ c.out = "fail"
                        /\ ~HasAlreadyExists(c.text)
                        /\ ~HasAlreadyExists(LowerText(c.text))
                THEN { Res(FALSE, "Failed to create database", d \o <<c>>) }
                ELSE UNION {
                       IF Raises(<<E("ssh", "psql --file", o)>>)
                       THEN { Res(FALSE, RaiseMsg(o, tmo, err),
                                  d \o <<c, E("ssh", "psql --file", o)>>) }
                       ELSE { Res(o = "ok" /\ r \in {"ok", "fail"},
                                  CASE r \notin {"ok", "fail"} -> RaiseMsg(r, tmo, err)
                                    [] o = "ok" -> "Database restored successfully via SSH"
                                    [] OTHER -> "SSH psql restore failed",
                                  d \o <<c, E("ssh", "psql --file", o),
                                         E("ssh", "rm remote dump", r)>>) :
                                r \in Outcomes }
                       : o \in Outcomes }
                : c \in CreatedbRuns("ssh") }
         : d \in DropRuns("ssh", drop_existing) }

\* _restore_dump
RestoreDump(dst, drop_existing) ==
    CASE dst = "local" -> RestoreLocalDump(dst, drop_existing)
      [] dst = "ssh"   -> RestoreSshDump(drop_existing)
      [] OTHER         -> { Res(FALSE, "Unsupported destination host type", <<>>) }

\* mutant: the failure of rmtree is not caught
CleanupRaises(dir) ==
    IF dir = "present"
    THEN { [dir |-> "removed", raised |-> FALSE, cmds |-> <<E("python", "rmtree", "ok")>>],
           [dir |-> "present", raised |-> TRUE, cmds |-> <<E("python", "rmtree", "fail")>>] }
    ELSE { [dir |-> dir, raised |-> FALSE, cmds |-> <<>>] }

\* _cleanup: rmtree of self.temp_dir when it is set and exists; a failing
\* rmtree is caught and only printed.  dir = the directory afterwards,
\* raised = whether _cleanup let an exception out
Cleanup(dir) ==
    IF dir = "present"
    THEN { [dir |-> "removed", raised |-> FALSE, cmds |-> <<E("python", "rmtree", "ok")>>],
           [dir |-> "present", raised |-> FALSE, cmds |-> <<E("python", "rmtree", "fail")>>] }
    ELSE { [dir |-> dir, raised |-> FALSE, cmds |-> <<>>] }

(***************************************************************************)
(* sync.py: DatabaseSyncManager.sync_database, one action per step         *)
(***************************************************************************)

Names(cmds) == { [via |-> cmds[i].via, cmd |-> cmds[i].cmd] : i \in 1..Len(cmds) }

\* the name a database of the user has in the runs of sync_database
UserDb == <<"m", "y", "d", "b">>

\* the auto_install each pre-flight call of sync_database is given: the
\* source call passes none (the parameter's default), the destination call
\* passes the caller's
SourceAutoInstall(auto) == FALSE

DestAutoInstall(auto) == auto

SyncStart ==
    /\ op = "none"
    /\ \E src \in HostTypes, dst \in HostTypes,
          de \in BOOLEAN, dto \in BOOLEAN, so \in BOOLEAN, ai \in BOOLEAN :
         args' = [NoArgs EXCEPT !.src = src, !.dst = dst, !.db = UserDb,
                                !.drop_existing = de, !.data_only = dto,
                                !.schema_only = so, !.auto_install = ai]
    /\ op' = "sync"
    /\ pc' = "source check"
    /\ UNCHANGED <<config, loop, system, log, issued, prompts, steps, lastCheck, tempDir,
                   result, raised, exitCode>>

\* one pre-flight call and the `if not available: return False, ...` after it
PreflightStep(here, type, auto, failMsg, next) ==
    /\ op = "sync"
    /\ pc = here
    /\ \E r \in CheckPostgresqlAvailability(type, auto, system) :
         /\ lastCheck' = [avail |-> r.avail, msg |-> r.msg, raised |-> r.raised,
                          host |-> type, auto |-> auto, cmds |-> r.cmds,
                          prompts |-> r.prompts]
         /\ log' = r.cmds
         /\ issued' = issued \cup Names(r.cmds)
         /\ prompts' = prompts \o r.prompts
         /\ pc' = IF r.raised THEN "except" ELSE IF r.avail THEN next ELSE "done"
         /\ result' = IF ~r.raised /\ ~r.avail THEN Ret(FALSE, failMsg) ELSE result
         /\ steps' = Append(steps, Step(here, r.avail /\ ~r.raised))
    /\ UNCHANGED <<config, loop, op, system, args, tempDir, raised, exitCode>>

SyncSourceCheck ==
    PreflightStep("source check", args.src, SourceAutoInstall(args.auto_install),
                  "Source PostgreSQL check failed", "destination check")

SyncDestCheck ==
    PreflightStep("destination check", args.dst, DestAutoInstall(args.auto_install),
                  "Destination PostgreSQL check failed", "mkdtemp")

\* tempfile.mkdtemp: creates the directory, or raises OSError
SyncMkdtemp ==
    /\ op = "sync"
    /\ pc = "mkdtemp"
    /\ \E created \in BOOLEAN :
         /\ tempDir' = IF created THEN "present" ELSE tempDir
         /\ pc' = IF created THEN "dump" ELSE "except"
    /\ lastCheck' = NoCheck
    /\ log' = <<>>
    /\ UNCHANGED <<config, loop, op, system, args, issued, prompts, steps, result, raised, exitCode>>

\* mutant: a failed step does not end the run
AfterStepIgnoresFailure(ok, next) == next

\* where sync_database goes after a step returned `ok`
AfterStep(ok, next) == IF ok THEN next ELSE "done"

\* a step of the work phase: the helper is called and
\* `if not success: return False, f"<failMsg>: {message}"`
WorkStep(here, results, failMsg, next) ==
    /\ op = "sync"
    /\ pc = here
    /\ \E r \in results :
         /\ log' = r.cmds
         /\ issued' = issued \cup Names(r.cmds)
         /\ pc' = AfterStep(r.ok, next)
         /\ result' = IF pc' = "done" THEN Ret(FALSE, failMsg) ELSE result
         /\ steps' = Append(steps, Step(here, r.ok))
    /\ UNCHANGED <<config, loop, op, system, args, prompts, lastCheck, tempDir, raised, exitCode>>

SyncDump ==
    WorkStep("dump", CreateDump(args.src, args.data_only, args.schema_only),
             "Dump creation failed", "transfer")

\* step 2 runs only when a side is an SSH host
SyncTransfer ==
    IF TransferNeeded(args.src, args.dst)
    THEN WorkStep("transfer", TransferDumpFile(args.src, args.dst),
                  "File transfer failed", "restore")
    ELSE /\ op = "sync"
         /\ pc = "transfer"
         /\ pc' = "restore"
         /\ log' = <<>>
         /\ UNCHANGED <<config, loop, op, system, args, issued, prompts, steps, lastCheck,
                        tempDir, result, raised, exitCode>>

SyncRestore ==
    WorkStep("restore", RestoreDump(args.dst, args.drop_existing),
             "Restore failed", "cleanup")

\* the _cleanup() of the normal path, then `return True, ...`
SyncCleanup ==
    /\ op = "sync"
    /\ pc = "cleanup"
    /\ \E c \in Cleanup(tempDir) :
         /\ tempDir' = c.dir
         /\ log' = c.cmds
         /\ issued' = issued \cup Names(c.cmds)
         /\ pc' = IF c.raised THEN "except" ELSE "done"
         /\ result' = IF c.raised THEN result ELSE Ret(TRUE, "synced successfully")
    /\ steps' = Append(steps, Step("cleanup", TRUE))
    /\ UNCHANGED <<config, loop, op, system, args, prompts, lastCheck, raised, exitCode>>

\* `except Exception as e: self._cleanup(); return False, ...`
SyncExcept ==
    /\ op = "sync"
    /\ pc = "except"
    /\ \E c \in Cleanup(tempDir) :
         /\ tempDir' = c.dir
         /\ log' = c.cmds
         /\ issued' = issued \cup Names(c.cmds)
         /\ result' = IF c.raised THEN result ELSE Ret(FALSE, "Sync failed with error")
         /\ raised' = IF c.raised THEN "Exception" ELSE raised
    /\ pc' = "done"
    /\ steps' = Append(steps, Step("except cleanup", TRUE))
    /\ UNCHANGED <<config, loop, op, system, args, prompts, lastCheck, exitCode>>

(***************************************************************************)
(* Strings, as sequences of one-character strings                          *)
(***************************************************************************)

UpperLetters == <<"A", "B", "C", "D", "E", "F", "G", "H", "I", "J", "K", "L", "M", "N", "O", "P", "Q", "R", "S", "T", "U", "V", "W", "X", "Y", "Z">>

LowerLetters == <<"a", "b", "c", "d", "e", "f", "g", "h", "i", "j", "k", "l", "m", "n", "o", "p", "q", "r", "s", "t", "u", "v", "w", "x", "y", "z">>

LetterIndex(letters, c) == CHOOSE i \in 1..Len(letters) : letters[i] = c

IsIn(letters, c) == \E i \in 1..Len(letters) : letters[i] = c

\* str.lower(), one character
LowerChar(c) ==
    IF IsIn(UpperLetters, c) THEN LowerLetters[LetterIndex(UpperLetters, c)] ELSE c

UpperChar(c) ==
    IF IsIn(LowerLetters, c) THEN UpperLetters[LetterIndex(LowerLetters, c)] ELSE c

\* str.lower()
Lower(s) == [i \in 1..Len(s) |-> LowerChar(s[i])]

Whitespace == {" ", "\t"}

RECURSIVE LStrip(_)
LStrip(s) == IF s # <<>> /\ Head(s) \in Whitespace THEN LStrip(Tail(s)) ELSE s

RECURSIVE RStrip(_)
RStrip(s) ==
    IF s # <<>> /\ s[Len(s)] \in Whitespace THEN RStrip(SubSeq(s, 1, Len(s) - 1)) ELSE s

\* str.strip()
Strip(s) == RStrip(LStrip(s))

\* `sub in s`
Contains(sub, s) ==
    \E k \in 0..(Len(s) - Len(sub)) : SubSeq(s, k + 1, k + Len(sub)) = sub

(***************************************************************************)
(* db.py: DatabaseManager.drop_database                                    *)
(***************************************************************************)

\* system_databases
SystemDatabases == { <<"p", "o", "s", "t", "g", "r", "e", "s">>,
                     <<"t", "e", "m", "p", "l", "a", "t", "e", "0">>,
                     <<"t", "e", "m", "p", "l", "a", "t", "e", "1">> }

\* stderr of a dropdb that exits non-zero
DropdbErrors == {"database missing", "role missing", "permission denied",
                 "authentication failed", "connection refused"}

DropdbStderr(id) ==
    CASE id = "database missing" ->
            <<"E", "R", "R", "O", "R", ":", " ", "d", "a", "t", "a", "b", "a", "s", "e", " ", "\"", "m", "y", "d", "b", "\"", " ", "d", "o", "e", "s", " ", "n", "o", "t", " ", "e", "x", "i", "s", "t">>
      [] id = "role missing" ->
            <<"F", "A", "T", "A", "L", ":", " ", "r", "o", "l", "e", " ", "\"", "a", "d", "m", "i", "n", "\"", " ", "d", "o", "e", "s", " ", "n", "o", "t", " ", "e", "x", "i", "s", "t">>
      [] id = "permission denied" ->
            <<"E", "R", "R", "O", "R", ":", " ", "m", "u", "s", "t", " ", "b", "e", " ", "o", "w", "n", "e", "r", " ", "o", "f", " ", "d", "a", "t", "a", "b", "a", "s", "e">>
      [] id = "authentication failed" ->
            <<"F", "A", "T", "A", "L", ":", " ", "p", "a", "s", "s", "w", "o", "r", "d", " ", "a", "u", "t", "h", "e", "n", "t", "i", "c", "a", "t", "i", "o", "n", " ", "f", "a", "i", "l", "e", "d">>
      [] OTHER ->
            <<"C", "o", "n", "n", "e", "c", "t", "i", "o", "n", " ", "r", "e", "f", "u", "s", "e", "d">>

DoesNotExist == <<"d", "o", "e", "s", " ", "n", "o", "t", " ", "e", "x", "i", "s", "t">>

\* the test both drop helpers apply to the stderr of a failed dropdb:
\* "does not exist" in result.stderr.lower()
SaysDoesNotExist(stderr) == Contains(DoesNotExist, Lower(stderr))

\* the dropdb runs a drop helper can see
DropdbRuns(via) ==
    { Entry(via, "dropdb", {"--if-exists"}, o, "none") : o \in Outcomes \ {"fail"} }
    \cup { Entry(via, "dropdb", {"--if-exists"}, "fail", e) : e \in DropdbErrors }

Drop(ok, msg, cmds) == [ok |-> ok, msg |-> msg, raised |-> "none", cmds |-> cmds]

\* how a drop helper reads one dropdb run
DropOutcome(c, onTimeout, onNotFound) ==
    CASE c.out = "ok" -> Drop(TRUE, "deleted successfully", <<c>>)
      [] c.out = "timeout" -> Drop(FALSE, onTimeout, <<c>>)
      [] c.out = "notfound" -> Drop(FALSE, onNotFound, <<c>>)
      [] OTHER -> IF SaysDoesNotExist(DropdbStderr(c.text))
                  THEN Drop(TRUE, "does not exist (already deleted)", <<c>>)
                  ELSE Drop(FALSE, "Failed to delete database", <<c>>)

\* _drop_local_database
DropLocalDatabase ==
    { DropOutcome(c, "Database deletion timed out", "dropdb command not found") :
        c \in DropdbRuns("local") }

\* _drop_ssh_database
DropSshDatabase ==
    { DropOutcome(c, "SSH database deletion timed out", "Error deleting database") :
        c \in DropdbRuns("ssh") }

\* mutant: the name is compared without .lower()
ValidateCaseSensitive(name) ==
    IF name = <<>> \/ Strip(name) = <<>> THEN "empty"
    ELSE IF Strip(name) \in SystemDatabases THEN "system"
    ELSE "ok"

\* the validation at the head of drop_database: "empty", "system" or "ok"
ValidateDatabaseName(name) ==
    IF name = <<>> \/ Strip(name) = <<>> THEN "empty"
    ELSE IF Lower(Strip(name)) \in SystemDatabases THEN "system"
    ELSE "ok"

\* drop_database(database_name, force)
DropDatabase(type, name) ==
    CASE ValidateDatabaseName(name) = "empty" ->
            { [ok |-> FALSE, msg |-> "none", raised |-> "ValueError", cmds |-> <<>>] }
      [] ValidateDatabaseName(name) = "system" ->
            { Drop(FALSE, "Cannot delete system database", <<>>) }
      [] OTHER ->
            CASE type = "local" -> DropLocalDatabase
              [] type = "ssh"   -> DropSshDatabase
              [] OTHER -> { Drop(FALSE, "Unsupported host type for database deletion", <<>>) }

(***************************************************************************)
(* main.py: the delete-db command                                          *)
(***************************************************************************)

\* get_database_info: one psql query; the row makes "exists" true, and every
\* other outcome comes back as {"exists": False, "error": ...}
GetDatabaseInfo(type) ==
    IF type \in {"local", "ssh"}
    THEN { [exists |-> TRUE, error |-> FALSE,
            cmds |-> <<Entry(type, "psql info", {}, "ok", "row")>>],
           [exists |-> FALSE, error |-> TRUE,
            cmds |-> <<Entry(type, "psql info", {}, "ok", "empty")>>] }
         \cup { [exists |-> FALSE, error |-> TRUE, cmds |-> <<E(type, "psql info", o)>>] :
                  o \in Outcomes \ {"ok"} }
    ELSE { [exists |-> FALSE, error |-> TRUE, cmds |-> <<>>] }

\* the backup of delete-db: DatabaseSyncManager(host, host)._create_dump with
\* no data/schema option; raised = _create_dump let an exception out (the
\* console.print that _create_ssh_dump does before its try block)
BackupAttempts(type) ==
    { [ok |-> r.ok, raised |-> FALSE, cmds |-> r.cmds] : r \in CreateDump(type, FALSE, FALSE) }
    \cup (IF type = "ssh" THEN { [ok |-> FALSE, raised |-> TRUE, cmds |-> <<>>] } ELSE {})

\* mutant: the outcome of the backup is not looked at
BackupIgnored(b, force) == TRUE

\* whether delete-db goes on after the backup attempt: a failed or raising
\* backup ends in `raise typer.Exit(1)` unless --force was given (the Exit
\* raised in the try block is itself caught by `except Exception`, which
\* raises it again, and once more by the command's outer handler)
BackupAllowsDeletion(b, force) == (b.ok /\ ~b.raised) \/ force

\* `if not force:` around the confirmation prompt
ConfirmNeeded(force) == ~force

\* mutant: the deletion goes ahead whatever the answer
ConfirmDeletionIgnoresAnswer(force) ==
    IF ConfirmNeeded(force)
    THEN { [go |-> TRUE, prompts |-> <<[q |-> "delete database", answer |-> a]>>] :
             a \in BOOLEAN }
    ELSE { [go |-> TRUE, prompts |-> <<>>] }

\* typer.confirm, when it is asked
ConfirmDeletion(force) ==
    IF ConfirmNeeded(force)
    THEN { [go |-> a, prompts |-> <<[q |-> "delete database", answer |-> a]>>] :
             a \in BOOLEAN }
    ELSE { [go |-> TRUE, prompts |-> <<>>] }

Cli(exit, cmds, ps, sts) == [exit |-> exit, cmds |-> cmds, prompts |-> ps, steps |-> sts]

\* the backup attempts of one delete-db run: none without --backup
BackupPhase(type, backup) ==
    IF backup THEN BackupAttempts(type)
    ELSE { [ok |-> TRUE, raised |-> FALSE, cmds |-> <<>>] }

\* exit code after drop_database: success 0; a failure, or the ValueError of
\* an empty name, leaves through the outer handler with 1
DropExit(d) == IF d.raised = "none" /\ d.ok THEN 0 ELSE 1

\* delete_db(host, database, force, backup): every run the command can have
DeleteDb(type, name, force, backup) ==
    { Cli(1, <<>>, <<>>, <<Step("config", FALSE)>>) }    \* get_host_config raised
    \cup UNION {
      IF ~info.exists /\ ~info.error
      THEN { Cli(0, info.cmds, <<>>, <<Step("config", TRUE), Step("info", FALSE)>>) }
      ELSE UNION {
             LET s1 == <<Step("config", TRUE), Step("info", info.exists)>>
                       \o (IF backup THEN <<Step("backup", b.ok /\ ~b.raised)>> ELSE <<>>)
             IN IF ~BackupAllowsDeletion(b, force)
                THEN { Cli(1, info.cmds \o b.cmds, <<>>, s1) }
                ELSE UNION {
                       IF ~a.go
                       THEN { Cli(0, info.cmds \o b.cmds, a.prompts, s1) }
                       ELSE { Cli(DropExit(d), info.cmds \o b.cmds \o d.cmds, a.prompts,
                                  s1 \o <<Step("drop", d.raised = "none" /\ d.ok)>>) :
                                d \in DropDatabase(type, name) }
                       : a \in ConfirmDeletion(force) }
             : b \in BackupPhase(type, backup) }
      : info \in GetDatabaseInfo(type) }

(***************************************************************************)
(* db.py: PostgreSQLManager, uninstallation and backup                     *)
(***************************************************************************)

\* stderr of a `brew uninstall` that exits non-zero
BrewUninstallErrors == {"no keg", "permission denied"}

BrewUninstallStderr(id) ==
    IF id = "no keg"
    THEN <<"E", "r", "r", "o", "r", ":", " ", "N", "o", " ", "s", "u", "c", "h", " ", "k", "e", "g", ":", " ", "/", "o", "p", "t", "/", "h", "o", "m", "e", "b", "r", "e", "w", "/", "C", "e", "l", "l", "a", "r", "/", "p", "o", "s", "t", "g", "r", "e", "s", "q", "l", "@", "1", "5">>
    ELSE <<"E", "r", "r", "o", "r", ":", " ", "P", "e", "r", "m", "i", "s", "s", "i", "o", "n", " ", "d", "e", "n", "i", "e", "d", " ", "@", " ", "a", "p", "p", "l", "y", "2", "f", "i", "l", "e", "s">>

NoSuchKeg == <<"N", "o", " ", "s", "u", "c", "h", " ", "k", "e", "g">>

\* _uninstall_macos: brew services stop, brew uninstall, rm -rf of the data
\* directories; only the exit of brew uninstall is looked at, and a command
\* that raises ends the function with False
UninstallMacos ==
    LET uninst == { E("local", "brew uninstall", o) : o \in Outcomes \ {"fail"} }
                  \cup { Entry("local", "brew uninstall", {}, "fail", e) :
                           e \in BrewUninstallErrors }
    IN { [ok |-> FALSE, cmds |-> <<E("local", "brew services stop", o)>>] :
           o \in {"timeout", "notfound"} }
       \cup UNION {
         UNION {
           IF Raises(<<u>>)
           THEN { [ok |-> FALSE, cmds |-> <<E("local", "brew services stop", s), u>>] }
           ELSE { [ok |-> /\ r \in {"ok", "fail"}
                          /\ \/ u.out = "ok"
                             \/ Contains(NoSuchKeg, BrewUninstallStderr(u.text)),
                   cmds |-> <<E("local", "brew services stop", s), u,
                              E("local", "rm -rf data", r)>>] : r \in Outcomes }
           : u \in uninst }
         : s \in {"ok", "fail"} }

\* _uninstall_local_postgresql; _uninstall_linux only prints instructions
UninstallLocalPostgresql(sys) ==
    IF sys = "Darwin" THEN UninstallMacos ELSE { [ok |-> FALSE, cmds |-> <<>>] }

\* _get_uninstall_commands: the descriptions of the commands, in table order
GetUninstallCommands(os) ==
    CASE os \in {"ubuntu", "debian"} ->
            <<"Stopping PostgreSQL service", "Disabling PostgreSQL service",
              "Removing PostgreSQL packages", "Removing PostgreSQL data",
              "Removing PostgreSQL config", "Cleaning up packages">>
      [] os \in {"centos", "rhel", "fedora"} ->
            <<"Stopping PostgreSQL service", "Disabling PostgreSQL service",
              "Removing PostgreSQL packages", "Removing PostgreSQL data">>
      [] OTHER -> <<>>

\* stderr of an uninstall command that exits non-zero
UninstallErrors == {"not installed", "password required"}

UninstallStderr(id) ==
    IF id = "not installed"
    THEN <<"P", "a", "c", "k", "a", "g", "e", " ", "'", "p", "o", "s", "t", "g", "r", "e", "s", "q", "l", "'", " ", "i", "s", " ", "n", "o", "t", " ", "i", "n", "s", "t", "a", "l", "l", "e", "d", ",", " ", "s", "o", " ", "n", "o", "t", " ", "r", "e", "m", "o", "v", "e", "d">>
    ELSE <<"s", "u", "d", "o", ":", " ", "a", " ", "p", "a", "s", "s", "w", "o", "r", "d", " ", "i", "s", " ", "r", "e", "q", "u", "i", "r", "e", "d">>

\* expected_errors
ExpectedErrors ==
    { <<"n", "o", "t", " ", "f", "o", "u", "n", "d">>, <<"n", "o", "t", " ", "i", "n", "s", "t", "a", "l", "l", "e", "d">>, <<"n", "o", " ", "s", "u", "c", "h">>, <<"d", "o", "e", "s", " ", "n", "o", "t", " ", "e", "x", "i", "s", "t">>,
      <<"n", "o", "t", " ", "l", "o", "a", "d", "e", "d">>, <<"n", "o", "t", " ", "a", "c", "t", "i", "v", "e">>, <<"f", "a", "i", "l", "e", "d", " ", "t", "o", " ", "s", "t", "o", "p">>, <<"f", "a", "i", "l", "e", "d", " ", "t", "o", " ", "d", "i", "s", "a", "b", "l", "e">>,
      <<"n", "o", "t", "h", "i", "n", "g", " ", "t", "o", " ", "d", "o">>, <<"n", "o", " ", "p", "a", "c", "k", "a", "g", "e", "s", " ", "m", "a", "r", "k", "e", "d">>, <<"n", "o", "t", " ", "a", "v", "a", "i", "l", "a", "b", "l", "e">> }

\* is_expected_error
IsExpectedError(stderr) == \E e \in ExpectedErrors : Contains(e, Lower(stderr))

\* the runs of one uninstall command over ssh
UninstallCommandRuns(description) ==
    { E("ssh", description, o) : o \in Outcomes \ {"fail"} }
    \cup { Entry("ssh", description, {}, "fail", e) : e \in UninstallErrors }

\* whether the run of one uninstall command adds an entry to `errors`
AddsError(c) == c.out = "fail" /\ ~IsExpectedError(UninstallStderr(c.text))

\* the verdict of _uninstall_postgresql_by_os after its loop: it fails when
\* more than half of the commands left an unexpected error
TooManyErrors(errors, table) == errors > Len(table) \div 2

\* _uninstall_ssh_postgresql up to the loop over the commands: detect the OS,
\* stop the service (exit code ignored), look up the command table;
\* go = whether the loop is entered
UninstallSshStart ==
    UNION { IF d.os = "none"
            THEN { [go |-> FALSE, os |-> "none", cmds |-> d.cmds] }
            ELSE { [go |-> s \in {"ok", "fail"} /\ GetUninstallCommands(d.os) # <<>>,
                    os |-> d.os,
                    cmds |-> d.cmds \o <<E("ssh", "systemctl stop", s)>>] :
                     s \in Outcomes }
            : d \in DetectSshOs }

\* uninstall_postgresql for a host that is not an SSH host
UninstallPostgresql(type, sys) ==
    IF type = "local" THEN UninstallLocalPostgresql(sys)
    ELSE { [ok |-> FALSE, cmds |-> <<>>] }

\* DatabaseManager.list_databases: a placeholder that prints a notice and
\* returns [] whatever databases the host holds
ListDatabases(hostDbs) == <<>>

\* DatabaseManager.dump_database: a placeholder that raises NotImplementedError
\* and writes no file
DumpDatabase(db) ==
    [raised |-> TRUE, cmds |-> <<Entry("python", "dump_database", {}, "fail", db)>>]

\* the names backup_all_databases leaves out
BackupSkips == {"postgres", "template0", "template1"}

RECURSIVE DumpEach(_)
DumpEach(dbs) ==
    IF dbs = <<>> THEN [ok |-> TRUE, cmds |-> <<>>]
    ELSE LET d == DumpDatabase(Head(dbs))
             rest == DumpEach(Tail(dbs))
         IN [ok |-> ~d.raised /\ rest.ok, cmds |-> d.cmds \o rest.cmds]

\* backup_all_databases: lists the databases, leaves the system ones out,
\* creates the backup directory and dumps each; False when a dump raised or
\* anything else did
BackupAllDatabases(hostDbs) ==
    LET user_databases == SelectSeq(ListDatabases(hostDbs), LAMBDA d : d \notin BackupSkips)
    IN IF user_databases = <<>>
       THEN { [ok |-> TRUE, cmds |-> <<>>] }
       ELSE { [ok |-> FALSE, cmds |-> <<E("python", "mkdir", "fail")>>],
              [ok |-> DumpEach(user_databases).ok,
               cmds |-> <<E("python", "mkdir", "ok")>> \o DumpEach(user_databases).cmds] }

(***************************************************************************)
(* main.py: the install and uninstall commands                             *)
(***************************************************************************)

\* `if not backup_success and not force: raise typer.Exit(1)`
BackupAllowsUninstall(ok, force) == ok \/ force

\* variant: the uninstallation goes ahead whatever the answer
ConfirmUninstallIgnoresAnswer(force) ==
    IF force
    THEN { [go |-> TRUE, prompts |-> <<>>] }
    ELSE { [go |-> TRUE, prompts |-> <<[q |-> "uninstall", answer |-> a]>>] :
             a \in BOOLEAN }

\* typer.confirm of uninstall, asked unless --force
ConfirmUninstall(force) ==
    IF force
    THEN { [go |-> TRUE, prompts |-> <<>>] }
    ELSE { [go |-> a, prompts |-> <<[q |-> "uninstall", answer |-> a]>>] :
             a \in BOOLEAN }

\* whether uninstall goes on after check_postgresql_installation
UninstallProceeds(is_installed) == is_installed

\* uninstall(host, force, backup_data) up to the call of uninstall_postgresql:
\* exit = -1 when the command goes on to uninstall, its exit code otherwise
UninstallPrelude(type, force, backup_data, hostDbs) ==
    { Cli(1, <<>>, <<>>, <<Step("config", FALSE)>>) }    \* get_host_config raised
    \cup UNION {
      LET s0 == <<Step("config", TRUE), Step("installed", ic.installed)>>
      IN IF ~UninstallProceeds(ic.installed)
         THEN { Cli(0, ic.cmds, <<>>, s0) }
         ELSE UNION {
                LET s1 == s0 \o (IF backup_data THEN <<Step("backup", b.ok)>> ELSE <<>>)
                IN IF ~BackupAllowsUninstall(b.ok, force)
                   THEN { Cli(1, ic.cmds \o b.cmds, <<>>, s1) }
                   ELSE { Cli(IF a.go THEN -1 ELSE 0, ic.cmds \o b.cmds, a.prompts, s1) :
                            a \in ConfirmUninstall(force) }
                : b \in (IF backup_data THEN BackupAllDatabases(hostDbs)
                         ELSE { [ok |-> TRUE, cmds |-> <<>>] }) }
      : ic \in CheckPostgresqlInstallation(type) }

\* variant: the installation check is made with --force too
InstallPrecheckAlways(type, force) == CheckPostgresqlInstallation(type)

\* `if not force:` around the installation check of install: the results of
\* the check, or none made
InstallPrecheck(type, force) ==
    IF force THEN { [installed |-> FALSE, cmds |-> <<>>] }
    ELSE CheckPostgresqlInstallation(type)

\* install(host, force): every run the command can have
Install(type, sys, force) ==
    { Cli(1, <<>>, <<>>, <<Step("config", FALSE)>>) }    \* get_host_config raised
    \cup UNION {
      LET s0 == <<Step("config", TRUE)>>
                \o (IF force THEN <<>> ELSE <<Step("installed", ic.installed)>>)
      IN IF ic.installed
         THEN { Cli(0, ic.cmds, <<>>, s0) }
         ELSE UNION {
                IF ~i.ok
                THEN { Cli(1, ic.cmds \o i.cmds, <<>>, s0 \o <<Step("install", FALSE)>>) }
                ELSE { Cli(0, ic.cmds \o i.cmds \o v.cmds, <<>>,
                           s0 \o <<Step("install", TRUE), Step("verify", v.installed)>>) :
                         v \in CheckPostgresqlInstallation(type) }
                : i \in InstallPostgresql(type, sys) }
      : ic \in InstallPrecheck(type, force) }

(***************************************************************************)
(* Calls: inputs                                                           *)
(***************************************************************************)

\* longest run of blanks put before and after a database name
MaxPad == 1

Spaces(n) == [i \in 1..n |-> " "]

\* a name in every mix of upper and lower case
CaseVariants(base) ==
    { [i \in 1..Len(base) |-> IF i \in m THEN UpperChar(base[i]) ELSE base[i]] :
        m \in SUBSET (1..Len(base)) }

Padded(names) ==
    { Spaces(i) \o n \o Spaces(j) : n \in names, i \in 0..MaxPad, j \in 0..MaxPad }

BlankNames == { Spaces(n) : n \in 0..(MaxPad + 1) } \cup { <<"\t">>, <<" ", "\t">> }

\* names of databases that are not system databases
OrdinaryNames == { UserDb,
                   <<"p", "o", "s", "t", "g", "r", "e", "s", "2">>,
                   <<"t", "e", "m", "p", "l", "a", "t", "e">>,
                   <<"m", "y", " ", "p", "o", "s", "t", "g", "r", "e", "s">> }

DbNames ==
    BlankNames \cup Padded(OrdinaryNames \cup UNION { CaseVariants(n) : n \in SystemDatabases })

\* the database names delete-db is run with
DeleteNames == { UserDb, <<" ">>, <<"P", "o", "s", "t", "g", "r", "e", "s">> }

(***************************************************************************)
(* Calls made directly                                                     *)
(***************************************************************************)

\* _check_postgresql_availability(host_config, host_type, auto_install)
CheckCall ==
    /\ op = "none"
    /\ \E type \in HostTypes, auto \in BOOLEAN :
         \E r \in CheckPostgresqlAvailability(type, auto, system) :
           /\ args' = [NoArgs EXCEPT !.src = type, !.auto_install = auto]
           /\ lastCheck' = [avail |-> r.avail, msg |-> r.msg, raised |-> r.raised,
                            host |-> type, auto |-> auto, cmds |-> r.cmds,
                            prompts |-> r.prompts]
           /\ log' = r.cmds
           /\ issued' = Names(r.cmds)
           /\ prompts' = r.prompts
           /\ result' = IF r.raised THEN NoResult ELSE Ret(r.avail, r.msg)
           /\ raised' = IF r.raised THEN "TypeError" ELSE "none"
    /\ op' = "check"
    /\ pc' = "done"
    /\ UNCHANGED <<config, loop, system, steps, tempDir, exitCode>>

\* _transfer_dump_file(dump_file)
TransferCall ==
    /\ op = "none"
    /\ \E src \in HostTypes, dst \in HostTypes :
         \E r \in TransferDumpFile(src, dst) :
           /\ args' = [NoArgs EXCEPT !.src = src, !.dst = dst]
           /\ log' = r.cmds
           /\ issued' = Names(r.cmds)
           /\ result' = Ret(r.ok, r.msg)
    /\ op' = "transfer"
    /\ pc' = "done"
    /\ UNCHANGED <<config, loop, system, prompts, steps, lastCheck, tempDir, raised, exitCode>>

\* DatabaseManager(host_config).drop_database(database_name, force)
DropCall ==
    /\ op = "none"
    /\ \E type \in HostTypes, name \in DbNames, force \in BOOLEAN :
         \E r \in DropDatabase(type, name) :
           /\ args' = [NoArgs EXCEPT !.src = type, !.db = name, !.force = force]
           /\ log' = r.cmds
           /\ issued' = Names(r.cmds)
           /\ result' = IF r.raised = "none" THEN Ret(r.ok, r.msg) ELSE NoResult
           /\ raised' = r.raised
    /\ op' = "drop"
    /\ pc' = "done"
    /\ UNCHANGED <<config, loop, system, prompts, steps, lastCheck, tempDir, exitCode>>

\* PostgreSQLManager(host_config).check_service_status(); a None return (brew
\* exits non-zero) is the result (FALSE, "None")
ServiceStatusCall ==
    /\ op = "none"
    /\ \E type \in HostTypes :
         \E r \in CheckServiceStatus(type, system) :
           /\ args' = [NoArgs EXCEPT !.src = type]
           /\ log' = r.cmds
           /\ issued' = Names(r.cmds)
           /\ result' = Ret(r.running,
                            CASE r.none -> "None"
                              [] r.running -> "PostgreSQL service is running"
                              [] OTHER -> "PostgreSQL service is not running")
    /\ op' = "service"
    /\ pc' = "done"
    /\ UNCHANGED <<config, loop, system, prompts, steps, lastCheck, tempDir, raised, exitCode>>

\* DatabaseSyncManager(LocalHost, ...)._create_local_dump(database_name,
\* dump_file, data_only, schema_only)
CreateLocalDumpCall ==
    /\ op = "none"
    /\ \E data_only \in BOOLEAN, schema_only \in BOOLEAN :
         \E r \in CreateLocalDump("local", data_only, schema_only) :
           /\ args' = [NoArgs EXCEPT !.src = "local", !.db = UserDb,
                                     !.data_only = data_only, !.schema_only = schema_only]
           /\ log' = r.cmds
           /\ issued' = Names(r.cmds)
           /\ result' = Ret(r.ok, r.msg)
    /\ op' = "local-dump"
    /\ pc' = "done"
    /\ UNCHANGED <<config, loop, system, prompts, steps, lastCheck, tempDir, raised, exitCode>>

\* DatabaseSyncManager(..., LocalHost)._restore_local_dump(database_name,
\* dump_file, drop_existing)
RestoreLocalDumpCall ==
    /\ op = "none"
    /\ \E drop_existing \in BOOLEAN :
         \E r \in RestoreLocalDump("local", drop_existing) :
           /\ args' = [NoArgs EXCEPT !.dst = "local", !.db = UserDb,
                                     !.drop_existing = drop_existing]
           /\ log' = r.cmds
           /\ issued' = Names(r.cmds)
           /\ result' = Ret(r.ok, r.msg)
    /\ op' = "local-restore"
    /\ pc' = "done"
    /\ UNCHANGED <<config, loop, system, prompts, steps, lastCheck, tempDir, raised, exitCode>>

(***************************************************************************)
(* listing.py: PostgreSQLLister.preview_table_content                      *)
(***************************************************************************)

\* The two queries are named: "column_query" asks information_schema.columns
\* for (column_name, data_type), "sql_query" is SELECT * FROM schema.table
\* ORDER BY 1 LIMIT n.

\* the argument vector _execute_local_preview_query builds for the column query
LocalPreviewCmd(query) ==
    <<"psql", "--host", "host", "--port", "port", "--username", "superuser",
      "--dbname", "database_name", "--tuples-only", "--no-align",
      "--field-separator=|", "--command", query>>

\* cmd[9] = sql_query  (Python counts the elements from 0)
LocalDataCmd(cmd, sql_query) == [cmd EXCEPT ![9 + 1] = sql_query]

\* the remote psql command line _execute_ssh_preview_query sends over ssh
SshPreviewCmd(query) ==
    <<"ssh", "ssh_config", "sudo", "-u", "superuser", "psql",
      "--dbname", "database_name", "--tuples-only", "--no-align",
      "--field-separator=|", "--command", query>>

HasOption(argv, option) == \E i \in 1..Len(argv) : argv[i] = option

\* the value psql gets for --command
CommandArg(argv) ==
    IF \E i \in 1..(Len(argv) - 1) : argv[i] = "--command"
    THEN argv[1 + CHOOSE i \in 1..(Len(argv) - 1) : argv[i] = "--command"]
    ELSE "none"

\* tables previewed: columns as <<name, type>>, rows of values; a line of
\* output is the sequence of its fields, which `|` separates
PreviewTables ==
    { [columns |-> <<>>, rows |-> <<>>],
      [columns |-> << <<<<"i", "d">>, <<"i", "n", "t", "e", "g", "e", "r">>>>, <<<<"n", "a", "m", "e">>, <<"t", "e", "x", "t">>>> >>,
       rows |-> << <<<<"1">>, <<" ", "a", "l">>>>, <<<<"2">>, <<>> >> >>],
      [columns |-> << <<<<"i", "d">>, <<"i", "n", "t", "e", "g", "e", "r">>>>, <<<<"n", "a", "m", "e">>, <<"t", "e", "x", "t">>>>, <<<<"e", "m", "a", "i", "l">>, <<"t", "e", "x", "t">>>> >>,
       rows |-> << <<<<"7">>, <<"b", "o">>, <<"b", "@", "x">>>> >>],
      [columns |-> << <<<<"i", "d">>, <<"i", "n", "t", "e", "g", "e", "r">>>> >>, rows |-> << <<<<"1">>>> >>] }

\* the "(n rows)" line that ends an output with headers
RowCountFooter == << << <<"(", "r", "o", "w", "s", ")">> >> >>

\* what psql prints for the query it is given with --command: the rows, with
\* a header line and a row-count footer unless --tuples-only is among the
\* options
PsqlOutput(argv, table) ==
    LET query == CommandArg(argv)
        rows == IF query = "column_query" THEN table.columns ELSE table.rows
        header == IF query = "column_query"
                  THEN <<<<"c", "o", "l", "u", "m", "n", "_", "n", "a", "m", "e">>, <<"d", "a", "t", "a", "_", "t", "y", "p", "e">>>>
                  ELSE [i \in 1..Len(table.columns) |-> table.columns[i][1]]
    IN IF HasOption(argv, "--tuples-only") THEN rows
       ELSE <<header>> \o rows \o RowCountFooter

\* the lines the parsers look at: `if line and '|' in line`
HasSeparator(line) == Len(line) >= 2

\* the column names: the first field, stripped, of every line with a separator
ParseColumns(lines) ==
    LET kept == SelectSeq(lines, HasSeparator)
    IN [i \in 1..Len(kept) |-> Strip(kept[i][1])]

NullValue == <<"N", "o", "n", "e">>

\* one value of a row: stripped, the empty string read as None
ParseValue(field) == IF Strip(field) = <<>> THEN NullValue ELSE Strip(field)

\* the rows: every line with a separator and as many fields as there are
\* columns, as the pairs (column, value) in column order
ParseRows(lines, columns) ==
    LET fits(line) == HasSeparator(line) /\ Len(line) = Len(columns)
        kept == SelectSeq(lines, fits)
    IN [i \in 1..Len(kept) |->
          [j \in 1..Len(columns) |-> <<columns[j], ParseValue(kept[i][j])>>]]

Preview(ok, rows, columns, msg, cmds) ==
    [ok |-> ok, rows |-> rows, columns |-> columns, msg |-> msg, cmds |-> cmds]

\* one subprocess.run of a preview command
PreviewRun(via, argv, out) ==
    [via |-> via, cmd |-> "psql --command", opts |-> {}, out |-> out,
     text |-> "none", argv |-> argv]

\* the two runs and the parsing that both _execute_*_preview_query do, given
\* the first and the second command; raised = subprocess.run raised
ExecutePreview(via, first, second, table, columnErr, dataErr) ==
    LET columns == ParseColumns(PsqlOutput(first, table))
    IN { [raised |-> (o # "fail"), res |-> Preview(FALSE, <<>>, <<>>, columnErr,
                                                    <<PreviewRun(via, first, o)>>)] :
           o \in Outcomes \ {"ok"} }
       \cup
       ( IF columns = <<>>
         THEN { [raised |-> FALSE, res |-> Preview(FALSE, <<>>, <<>>, "No columns found for table",
                                                   <<PreviewRun(via, first, "ok")>>)] }
         ELSE { [raised |-> (o # "fail"),
                 res |-> Preview(FALSE, <<>>, <<>>, dataErr,
                                 <<PreviewRun(via, first, "ok"), PreviewRun(via, second, o)>>)] :
                  o \in Outcomes \ {"ok"} }
              \cup { [raised |-> FALSE,
                      res |-> Preview(TRUE, ParseRows(PsqlOutput(second, table), columns),
                                      columns, "",
                                      <<PreviewRun(via, first, "ok"),
                                        PreviewRun(via, second, "ok")>>)] } )

\* _execute_local_preview_query
ExecuteLocalPreviewQuery(sql_query, table) ==
    ExecutePreview("local", LocalPreviewCmd("column_query"),
                   LocalDataCmd(LocalPreviewCmd("column_query"), sql_query), table,
                   "Failed to get column info", "Query failed")

\* _execute_ssh_preview_query
ExecuteSshPreviewQuery(sql_query, table) ==
    ExecutePreview("ssh", SshPreviewCmd("column_query"), SshPreviewCmd(sql_query), table,
                   "SSH column query failed", "SSH data query failed")

\* preview_table_content: an exception of the helper is caught and reported
PreviewTableContent(type, table) ==
    LET caught(r) == IF r.raised
                     THEN Preview(FALSE, <<>>, <<>>, "Error previewing table content", r.res.cmds)
                     ELSE r.res
    IN CASE type = "local" -> { caught(r) : r \in ExecuteLocalPreviewQuery("sql_query", table) }
         [] type = "ssh"   -> { caught(r) : r \in ExecuteSshPreviewQuery("sql_query", table) }
         [] OTHER -> { Preview(FALSE, <<>>, <<>>, "Unsupported host type for table preview", <<>>) }

\* PostgreSQLLister(host_config).preview_table_content(database_name, table_name)
PreviewCall ==
    /\ op = "none"
    /\ \E type \in HostTypes, table \in PreviewTables :
         \E r \in PreviewTableContent(type, table) :
           /\ args' = [NoArgs EXCEPT !.src = type, !.db = UserDb, !.table = table]
           /\ log' = r.cmds
           /\ issued' = Names(r.cmds)
           /\ result' = [ok |-> r.ok, msg |-> r.msg, rows |-> r.rows, columns |-> r.columns]
    /\ op' = "preview"
    /\ pc' = "done"
    /\ UNCHANGED <<config, loop, system, prompts, steps, lastCheck, tempDir, raised, exitCode>>

\* PostgreSQLManager(SSHHost)._install_ssh_postgresql()
InstallSshCall ==
    /\ op = "none"
    /\ \E r \in InstallSshPostgresql :
         /\ log' = r.cmds
         /\ issued' = Names(r.cmds)
         /\ result' = Ret(r.ok, IF r.ok THEN "PostgreSQL installed and configured successfully"
                                ELSE "installation failed")
    /\ args' = [NoArgs EXCEPT !.src = "ssh"]
    /\ op' = "install-ssh"
    /\ pc' = "done"
    /\ UNCHANGED <<config, loop, system, prompts, steps, lastCheck, tempDir, raised, exitCode>>

\* pgsqlmgr delete-db HOST DATABASE [--force] [--backup]
DeleteDbCommand ==
    /\ op = "none"
    /\ \E type \in HostTypes, name \in DeleteNames, force \in BOOLEAN, backup \in BOOLEAN :
         \E r \in DeleteDb(type, name, force, backup) :
           /\ args' = [NoArgs EXCEPT !.src = type, !.db = name, !.force = force,
                                     !.backup = backup]
           /\ log' = r.cmds
           /\ issued' = Names(r.cmds)
           /\ prompts' = r.prompts
           /\ exitCode' = r.exit
           /\ steps' = r.steps
    /\ op' = "delete-db"
    /\ pc' = "done"
    /\ UNCHANGED <<config, loop, system, lastCheck, tempDir, result, raised>>

(***************************************************************************)
(* main.py: the sync-db command                                            *)
(***************************************************************************)

\* the hosts of the configuration file the command is run with, by name
ConfiguredHosts ==
    [laptop |-> "local", server |-> "ssh", replica |-> "ssh", rds |-> "cloud"]

\* the host names sync-db is given: the configured ones and an unknown one
HostNames == DOMAIN ConfiguredHosts \cup {"ghost"}

\* get_host_config: the host's configuration, or KeyError ("none")
GetHostConfig(name) ==
    IF name \in DOMAIN ConfiguredHosts THEN ConfiguredHosts[name] ELSE "none"

\* `if data_only and schema_only: ... raise typer.Exit(1)`
OptionsAccepted(data_only, schema_only) == ~(data_only /\ schema_only)

\* variant: --dry-run does not end the command
DryRunIgnored(dry_run) == FALSE

\* `if dry_run: ... return`
DryRunStops(dry_run) == dry_run

\* `if source_host == destination_host: ... raise typer.Exit(1)`
SameHost(source_host, destination_host) == source_host = destination_host

\* sync_db up to the call of sync_database: exit = -1 when the command goes on
\* to sync_database, its exit code otherwise
SyncDbPrelude(source_host, destination_host, data_only, schema_only, dry_run) ==
    IF ~OptionsAccepted(data_only, schema_only)
    THEN { [exit |-> 1, steps |-> <<Step("options", FALSE)>>] }
    ELSE { [exit |-> 1, steps |-> <<Step("options", TRUE), Step("config", FALSE)>>] }
         \* load_config raised
         \cup
         (LET s1 == <<Step("options", TRUE), Step("config", TRUE)>>
          IN IF GetHostConfig(source_host) = "none" \/ GetHostConfig(destination_host) = "none"
             THEN {}
             ELSE IF DryRunStops(dry_run)
             THEN { [exit |-> 0, steps |-> s1 \o <<Step("dry run", TRUE)>>] }
             ELSE IF SameHost(source_host, destination_host)
             THEN { [exit |-> 1, steps |-> s1 \o <<Step("same host", FALSE)>>] }
             ELSE { [exit |-> -1, steps |-> <<>>] })

\* pgsqlmgr sync-db SOURCE DATABASE DESTINATION [options], up to the call of
\* sync_database, whose steps are the actions of sync_database
SyncDbCommand ==
    /\ op = "none"
    /\ \E source_host \in HostNames, destination_host \in HostNames,
          de \in BOOLEAN, dto \in BOOLEAN, so \in BOOLEAN, ai \in BOOLEAN,
          dry \in BOOLEAN :
         \E r \in SyncDbPrelude(source_host, destination_host, dto, so, dry) :
           /\ args' = [NoArgs EXCEPT !.src = GetHostConfig(source_host),
                                     !.dst = GetHostConfig(destination_host),
                                     !.srcName = source_host,
                                     !.dstName = destination_host,
                                     !.db = UserDb, !.drop_existing = de,
                                     !.data_only = dto, !.schema_only = so,
                                     !.auto_install = ai, !.dry_run = dry,
                                     !.cli = TRUE]
           /\ steps' = r.steps
           /\ exitCode' = r.exit
           /\ op' = IF r.exit = -1 THEN "sync" ELSE "sync-db"
           /\ pc' = IF r.exit = -1 THEN "source check" ELSE "done"
    /\ UNCHANGED <<config, loop, system, log, issued, prompts, lastCheck, tempDir, result, raised>>

\* sync_db after sync_database returned: success ends the command, a failure
\* prints the panel and raises typer.Exit(1)
SyncDbExit ==
    /\ op = "sync"
    /\ args.cli
    /\ pc = "done"
    /\ exitCode = -1
    /\ exitCode' = IF raised = "none" /\ result.ok THEN 0 ELSE 1
    /\ UNCHANGED <<config, loop, op, pc, system, args, log, issued, prompts, steps, lastCheck,
                   tempDir, result, raised>>

(***************************************************************************)
(* config.py: loading and validating the configuration file                *)
(***************************************************************************)

\* the character class [a-zA-Z0-9_-]
InNameClass(c) ==
    \/ IsIn(LowerLetters, c)
    \/ IsIn(UpperLetters, c)
    \/ c \in {"0", "1", "2", "3", "4", "5", "6", "7", "8", "9"}
    \/ c \in {"_", "-"}

\* re.match(r'^[a-zA-Z0-9_-]+$', host_name): one or more characters of the
\* class up to the end of the string, where `$` also matches just before a
\* newline that ends the string
MatchesHostNamePattern(host_name) ==
    LET body == IF host_name # <<>> /\ host_name[Len(host_name)] = "\n"
                THEN { host_name, SubSeq(host_name, 1, Len(host_name) - 1) }
                ELSE { host_name }
    IN \E b \in body : b # <<>> /\ \A i \in 1..Len(b) : InNameClass(b[i])

\* the longest host name validate_host_names accepts
MaxHostNameLen == 50

\* Field(default=5432, ge=1, le=65535)
PortMin == 1

PortMax == 65535

\* validate_hosts_not_empty: the error it raises, or "ok"
ValidateHostsNotEmpty(hosts) ==
    IF hosts = {} THEN "At least one host must be configured" ELSE "ok"

\* validate_host_names: the errors it can raise (the first offending name in
\* the order of the mapping), or "ok"
ValidateHostNames(hosts) ==
    LET errs == { IF ~MatchesHostNamePattern(h.name) THEN "contains invalid characters"
                  ELSE IF Len(h.name) > MaxHostNameLen THEN "is too long"
                  ELSE "ok" : h \in hosts } \ {"ok"}
    IN IF errs = {} THEN {"ok"} ELSE errs

\* validation of one host entry against LocalHost / SSHHost / CloudHost: the
\* port range, and the superuser that only CloudHost makes optional
HostEntryValid(h) ==
    /\ h.port >= PortMin
    /\ h.port <= PortMax
    /\ h.type \in HostTypes
    /\ h.type # "cloud" => h.superuser

NoConfig == [loaded |-> FALSE, hosts |-> {}]

Loaded(hosts) == [loaded |-> TRUE, hosts |-> hosts]

\* PostgreSQLManagerConfig(**raw_config): the object, or the message of its
\* ValidationError.  A `hosts` key that is absent takes the field's default,
\* on which the field validators are not run
PostgreSQLManagerConfig(raw) ==
    CASE raw.hosts = "absent" -> { [config |-> Loaded({}), error |-> "none"] }
      [] raw.hosts = "null"   -> { [config |-> NoConfig,
                                    error |-> "Input should be a valid dictionary"] }
      [] OTHER ->
           IF \E h \in raw.entries : ~HostEntryValid(h)
           THEN { [config |-> NoConfig, error |-> "invalid host entry"] }
           ELSE IF ValidateHostsNotEmpty(raw.entries) # "ok"
           THEN { [config |-> NoConfig, error |-> ValidateHostsNotEmpty(raw.entries)] }
           ELSE { [config |-> IF e = "ok" THEN Loaded(raw.entries) ELSE NoConfig,
                   error |-> IF e = "ok" THEN "none" ELSE e] :
                    e \in ValidateHostNames(raw.entries) }

\* what reading the file gives before the model is built: the exception
\* load_config raises, or "none"
ReadError(file) ==
    CASE file.kind = "missing"    -> "FileNotFoundError"
      [] file.kind = "unreadable" -> "PermissionError"
      [] file.kind = "bad yaml"   -> "YAMLError"
      [] file.kind = "empty"      -> "ValueError"
      [] OTHER                    -> "none"

\* load_config: the configuration returned, or the exception raised
LoadConfig(file) ==
    IF ReadError(file) # "none"
    THEN { [config |-> NoConfig, raised |-> ReadError(file),
            msg |-> IF file.kind = "empty" THEN "Configuration file is empty" ELSE "none"] }
    ELSE { [config |-> r.config,
            raised |-> IF r.config.loaded THEN "none" ELSE "ValueError",
            msg |-> r.error] : r \in PostgreSQLManagerConfig(file) }

\* validate_config_file: (is_valid, errors)
ValidateConfigFile(file) ==
    IF ReadError(file) # "none"
    THEN { [valid |-> FALSE, config |-> NoConfig, msg |-> ReadError(file)] }
    ELSE { [valid |-> r.error = "none", config |-> r.config, msg |-> r.error] :
             r \in PostgreSQLManagerConfig(file) }

\* most hosts in a configuration file
MaxHosts == 2

Repeat(c, n) == [i \in 1..n |-> c]

\* host names a configuration file may use as keys
SampleNames ==
    { <<"l", "o", "c", "a", "l">>, <<"t", "e", "s", "t", "-", "h", "o", "s", "t", "_", "1", "2", "3">>, <<"t", "e", "s", "t", "@", "h", "o", "s", "t">>, <<"d", "b", "\n">>, <<"m", "y", " ", "d", "b">>, <<>>,
      Repeat("a", MaxHostNameLen), Repeat("a", MaxHostNameLen + 1),
      Repeat("a", MaxHostNameLen - 1) \o <<"\n">> }

SamplePorts == {PortMin - 1, PortMin, 5432, PortMax, PortMax + 1}

SampleEntries ==
    { [name |-> n, type |-> "local", port |-> p, superuser |-> TRUE] :
        n \in SampleNames, p \in SamplePorts }
    \cup { [name |-> <<"r", "d", "s">>, type |-> "cloud", port |-> 5432, superuser |-> s] :
             s \in BOOLEAN }
    \cup { [name |-> <<"b", "a", "r", "e">>, type |-> "local", port |-> 5432, superuser |-> FALSE] }

\* the mappings of at most n hosts, each name a key once
RECURSIVE HostMappings(_)
HostMappings(n) ==
    IF n = 0 THEN { {} }
    ELSE HostMappings(n - 1)
         \cup UNION { { m \cup {h} :
                         h \in { e \in SampleEntries : \A x \in m : x.name # e.name } } :
                       m \in HostMappings(n - 1) }

NoFile == [kind |-> "none", hosts |-> "absent", entries |-> {}]

\* the configuration files the functions are called with
ConfigFiles ==
    { [NoFile EXCEPT !.kind = k] : k \in {"missing", "unreadable", "bad yaml", "empty"} }
    \cup { [kind |-> "mapping", hosts |-> h, entries |-> {}] : h \in {"absent", "null"} }
    \cup { [kind |-> "mapping", hosts |-> "mapping", entries |-> m] :
             m \in HostMappings(MaxHosts) }

\* load_config(config_path)
LoadConfigCall ==
    /\ op = "none"
    /\ \E file \in ConfigFiles :
         \E r \in LoadConfig(file) :
           /\ args' = [NoArgs EXCEPT !.file = file]
           /\ config' = r.config
           /\ raised' = r.raised
           /\ result' = IF r.raised = "none" THEN Ret(TRUE, "loaded") ELSE Ret(FALSE, r.msg)
    /\ op' = "load-config"
    /\ pc' = "done"
    /\ UNCHANGED <<loop, system, log, issued, prompts, steps, lastCheck, tempDir, exitCode>>

\* validate_config_file(config_path)
ValidateConfigCall ==
    /\ op = "none"
    /\ \E file \in ConfigFiles :
         \E r \in ValidateConfigFile(file) :
           /\ args' = [NoArgs EXCEPT !.file = file]
           /\ config' = r.config
           /\ result' = Ret(r.valid, r.msg)
    /\ op' = "validate-config"
    /\ pc' = "done"
    /\ UNCHANGED <<loop, system, log, issued, prompts, steps, lastCheck, tempDir,
                   raised, exitCode>>

\* the user databases a host can hold when uninstall is run
HostDatabaseSets == { {}, {"shop", "blog"} }

\* pgsqlmgr uninstall HOST [--force] [--backup-data], up to the call of
\* uninstall_postgresql
UninstallCommand ==
    /\ op = "none"
    /\ \E type \in HostTypes, force \in BOOLEAN, backup_data \in BOOLEAN,
          dbs \in HostDatabaseSets :
         \E r \in UninstallPrelude(type, force, backup_data, dbs) :
           /\ args' = [NoArgs EXCEPT !.src = type, !.force = force,
                                     !.backup = backup_data, !.dbs = dbs, !.cli = TRUE]
           /\ log' = r.cmds
           /\ issued' = Names(r.cmds)
           /\ prompts' = r.prompts
           /\ exitCode' = r.exit
           /\ steps' = r.steps
           /\ pc' = IF r.exit = -1 THEN "uninstall" ELSE "done"
    /\ op' = "uninstall"
    /\ UNCHANGED <<config, loop, system, lastCheck, tempDir, result, raised>>

\* uninstall_postgresql failed: the panel is printed and typer.Exit(1) raised
UninstallFailed ==
    /\ steps' = Append(steps, Step("uninstall", FALSE))
    /\ exitCode' = 1
    /\ pc' = "done"

\* uninstall_postgresql succeeded: the command goes on to verify
UninstallSucceeded ==
    /\ steps' = Append(steps, Step("uninstall", TRUE))
    /\ exitCode' = exitCode
    /\ pc' = "verify"

\* uninstall_postgresql: all of it for a local or cloud host; for an SSH host
\* _uninstall_ssh_postgresql up to the loop over the uninstall commands
UninstallStart ==
    /\ op = "uninstall"
    /\ pc = "uninstall"
    /\ IF args.src = "ssh"
       THEN \E r \in UninstallSshStart :
              /\ log' = r.cmds
              /\ issued' = issued \cup Names(r.cmds)
              /\ IF r.go
                 THEN /\ loop' = [os |-> r.os, i |-> 1, errors |-> 0]
                      /\ pc' = "uninstall loop"
                      /\ UNCHANGED <<steps, exitCode>>
                 ELSE /\ UninstallFailed
                      /\ loop' = loop
       ELSE \E u \in UninstallPostgresql(args.src, system) :
              /\ log' = u.cmds
              /\ issued' = issued \cup Names(u.cmds)
              /\ IF u.ok THEN UninstallSucceeded ELSE UninstallFailed
              /\ loop' = loop
    /\ UNCHANGED <<config, op, system, args, prompts, lastCheck, tempDir, result, raised>>

\* one pass of the loop of _uninstall_postgresql_by_os, and after the last
\* pass the verdict; a subprocess.run that raises leaves the loop and is
\* caught by _uninstall_ssh_postgresql
UninstallLoopStep ==
    /\ op = "uninstall"
    /\ pc = "uninstall loop"
    /\ LET table == GetUninstallCommands(loop.os)
       IN \E c \in UninstallCommandRuns(table[loop.i]) :
            LET errors == loop.errors + (IF AddsError(c) THEN 1 ELSE 0)
            IN /\ log' = <<c>>
               /\ issued' = issued \cup Names(<<c>>)
               /\ IF Raises(<<c>>)
                  THEN UninstallFailed /\ loop' = loop
                  ELSE IF loop.i < Len(table)
                  THEN /\ loop' = [loop EXCEPT !.i = loop.i + 1, !.errors = errors]
                       /\ UNCHANGED <<steps, exitCode, pc>>
                  ELSE /\ loop' = [loop EXCEPT !.errors = errors]
                       /\ IF TooManyErrors(errors, table)
                          THEN UninstallFailed
                          ELSE UninstallSucceeded
    /\ UNCHANGED <<config, op, system, args, prompts, lastCheck, tempDir, result, raised>>

\* the check_postgresql_installation after a successful uninstall, whose
\* result is only printed
UninstallVerify ==
    /\ op = "uninstall"
    /\ pc = "verify"
    /\ \E v \in CheckPostgresqlInstallation(args.src) :
         /\ log' = v.cmds
         /\ issued' = issued \cup Names(v.cmds)
         /\ steps' = Append(steps, Step("verify", ~v.installed))
    /\ exitCode' = 0
    /\ pc' = "done"
    /\ UNCHANGED <<config, loop, op, system, args, prompts, lastCheck, tempDir, result, raised>>

\* pgsqlmgr install HOST [--force]
InstallCommand ==
    /\ op = "none"
    /\ \E type \in HostTypes, force \in BOOLEAN :
         \E r \in Install(type, system, force) :
           /\ args' = [NoArgs EXCEPT !.src = type, !.force = force, !.cli = TRUE]
           /\ log' = r.cmds
           /\ issued' = Names(r.cmds)
           /\ prompts' = r.prompts
           /\ exitCode' = r.exit
           /\ steps' = r.steps
    /\ op' = "install"
    /\ pc' = "done"
    /\ UNCHANGED <<config, loop, system, lastCheck, tempDir, result, raised>>

Init ==
    /\ config = NoConfig
    /\ loop = NoLoop
    /\ op = "none"
    /\ pc = "idle"
    /\ system \in Systems
    /\ args = NoArgs
    /\ log = <<>>
    /\ issued = {}
    /\ prompts = <<>>
    /\ steps = <<>>
    /\ lastCheck = NoCheck
    /\ tempDir = "unset"
    /\ result = NoResult
    /\ raised = "none"
    /\ exitCode = -1

Next ==
    \/ SyncStart
    \/ SyncSourceCheck
    \/ SyncDestCheck
    \/ SyncMkdtemp
    \/ SyncDump
    \/ SyncTransfer
    \/ SyncRestore
    \/ SyncCleanup
    \/ SyncExcept
    \/ CheckCall
    \/ TransferCall
    \/ DropCall
    \/ ServiceStatusCall
    \/ CreateLocalDumpCall
    \/ RestoreLocalDumpCall
    \/ PreviewCall
    \/ InstallSshCall
    \/ DeleteDbCommand
    \/ UninstallCommand
    \/ UninstallStart
    \/ UninstallLoopStep
    \/ UninstallVerify
    \/ InstallCommand
    \/ SyncDbCommand
    \/ SyncDbExit
    \/ LoadConfigCall
    \/ ValidateConfigCall

Spec == Init /\ [][Next]_vars

(***************************************************************************)
(* Properties                                                              *)
(***************************************************************************)

Issued(cmd) == \E c \in issued : c.cmd = cmd

StepNames == [i \in 1..Len(steps) |-> steps[i].step]

Ran(name) == \E i \in 1..Len(steps) : steps[i].step = name

Succeeded(name) == \E i \in 1..Len(steps) : steps[i].step = name /\ steps[i].ok

Failed(name) == \E i \in 1..Len(steps) : steps[i].step = name /\ ~steps[i].ok

SshSide == args.src = "ssh" \/ args.dst = "ssh"

\* the steps of sync_database in the order of the workflow
StepOrder == <<"source check", "destination check", "dump", "transfer",
               "restore", "cleanup">>

Rank(name) == CHOOSE k \in 1..Len(StepOrder) : StepOrder[k] = name

\* the steps a run has to have gone through before step number k
Before(k) == { StepOrder[j] : j \in 1..(k - 1) } \ (IF SshSide THEN {} ELSE {"transfer"})

\* C1: in every run of sync_database the steps run in the order source check,
\* destination check, dump, transfer (only with an SSH side), restore, cleanup;
\* a step runs only after every step before it reported success; and the first
\* failing step ends the run with (False, message), no command of a later dump,
\* transfer or restore having been issued.  (The _cleanup of the exception
\* handler is a call that finds no directory to remove.)
C1_StepsInOrder ==
    op = "sync" =>
      LET work == SelectSeq(steps, LAMBDA s : s.step # "except cleanup")
      IN /\ \A i \in 1..Len(work) :
              /\ work[i].step \in { StepOrder[k] : k \in 1..Len(StepOrder) }
              /\ { work[j].step : j \in 1..(i - 1) } = Before(Rank(work[i].step))
              /\ \A j \in 1..(i - 1) : work[j].ok
              /\ ~work[i].ok => i = Len(work) /\ pc \in {"done", "except"}
         /\ Ran("transfer") => SshSide
         /\ (pc = "done" /\ \E i \in 1..Len(work) : ~work[i].ok) =>
              /\ raised = "none"
              /\ ~result.ok
              /\ result.msg # "none"
         /\ ~Ran("dump") => ~Issued("pg_dump") /\ ~Issued("scp download")
         /\ ~Ran("transfer") => ~Issued("scp upload")
         /\ ~Ran("restore") =>
              ~Issued("dropdb") /\ ~Issued("createdb") /\ ~Issued("psql --file")
         /\ Ran("except cleanup") => ~Issued("rmtree")

\* a run whose restore failed after dump and transfer succeeded
C1_Witness ==
    /\ op = "sync"
    /\ pc = "done"
    /\ StepNames = <<"source check", "destination check", "dump", "transfer", "restore">>
    /\ Failed("restore")
    /\ result = Ret(FALSE, "Restore failed")

\* C2: sync_database runs the transfer step exactly when the source or the
\* destination is an SSH host; a local-to-local sync issues no scp, and
\* _transfer_dump_file then answers (True, "No file transfer needed ..."); the
\* transfer uploads the dump with scp exactly when the destination is an SSH host.
C2_TransferIffSsh ==
    /\ op = "sync" =>
         /\ Ran("transfer") => SshSide
         /\ (Succeeded("dump") /\ pc # "transfer") => (Ran("transfer") <=> SshSide)
         /\ (args.src = "local" /\ args.dst = "local") =>
              ~Issued("scp upload") /\ ~Issued("scp download")
         /\ Ran("transfer") => (Issued("scp upload") <=> args.dst = "ssh")
         /\ Issued("scp upload") => Ran("transfer")
    /\ op = "transfer" =>
         /\ (args.src = "local" /\ args.dst = "local") =>
              /\ result = Ret(TRUE, "No file transfer needed for local-to-local sync")
              /\ issued = {}
         /\ Issued("scp upload") <=> args.dst = "ssh"

\* a sync from an SSH host to a local one: the transfer step ran, without upload
C2_Witness ==
    /\ op = "sync"
    /\ args.src = "ssh"
    /\ args.dst = "local"
    /\ Succeeded("transfer")
    /\ Ran("restore")
    /\ ~Issued("scp upload")

\* C3: a run that completed dump, transfer and restore calls _cleanup, which
\* removes the temporary directory, before it returns (True, ...); when the
\* removal fails no exception leaves _cleanup and the run still returns success.
C3_CleanupBeforeSuccess ==
    /\ (op = "sync" /\ pc = "done" /\ result.ok) =>
         /\ Succeeded("dump") /\ Succeeded("restore")
         /\ steps[Len(steps)].step = "cleanup"
         /\ Issued("rmtree")
         /\ tempDir = "removed" \/ log = <<E("python", "rmtree", "fail")>>
    /\ (op = "sync" /\ pc = "done" /\ Succeeded("restore")) =>
         /\ raised = "none"
         /\ result = Ret(TRUE, "synced successfully")
    /\ (op = "sync" /\ Succeeded("restore")) => pc \in {"cleanup", "done"}

\* a successful run whose rmtree failed
C3_Witness ==
    /\ op = "sync"
    /\ pc = "done"
    /\ result.ok
    /\ tempDir = "present"
    /\ log = <<E("python", "rmtree", "fail")>>

Did(cmds, cmd) == \E i \in 1..Len(cmds) : cmds[i].cmd = cmd /\ cmds[i].out = "ok"

\* C4: _check_postgresql_availability answers available=True for an SSH host
\* only if PostgreSQL was found installed or installed by the check, the
\* service was found running or started by the check, and the superuser's
\* access was verified or the superuser was set up by the check.
C4_AvailableMeansVerified ==
    (lastCheck.host = "ssh" /\ lastCheck.avail) =>
      /\ Did(lastCheck.cmds, "psql --version") \/ Did(lastCheck.cmds, "Installing PostgreSQL")
      /\ \/ Did(lastCheck.cmds, "systemctl is-active")
         \/ Did(lastCheck.cmds, "systemctl start")
         \/ Did(lastCheck.cmds, "Starting PostgreSQL service")
      /\ Did(lastCheck.cmds, "psql --list") \/ Did(lastCheck.cmds, "create superuser")

\* C5: with auto_install=True sync_database asks no interactive question
\* during the pre-flight check of either host.
C5_AutoInstallNeverAsks ==
    (op = "sync" /\ args.auto_install) => prompts = <<>>

CheckCommands == {"psql --version", "brew services list", "systemctl is-active", "psql --list"}

Declined(c, question) ==
    \E i \in 1..Len(c.prompts) : c.prompts[i].q = question /\ ~c.prompts[i].answer

\* C6: when PostgreSQL is not installed, or installed but not running,
\* auto_install is false and the user declines the question, the check returns
\* (False, message) and has issued no install, start or user-setup command.
C6_DeclineStopsCheck ==
    /\ Declined(lastCheck, "install") => ~Did(lastCheck.cmds, "psql --version")
    /\ Declined(lastCheck, "start service") =>
         /\ Did(lastCheck.cmds, "psql --version")
         /\ ~Did(lastCheck.cmds, "systemctl is-active")
    /\ (Declined(lastCheck, "install") \/ Declined(lastCheck, "start service")) =>
         /\ ~lastCheck.auto
         /\ ~lastCheck.avail
         /\ ~lastCheck.raised
         /\ lastCheck.msg \in {"PostgreSQL not available", "PostgreSQL service not running"}
         /\ \A i \in 1..Len(lastCheck.cmds) : lastCheck.cmds[i].cmd \in CheckCommands
         /\ op = "check" => result = Ret(FALSE, lastCheck.msg)

\* the user declined to start the stopped service of an SSH host
C6_Witness ==
    /\ op = "check"
    /\ lastCheck.host = "ssh"
    /\ lastCheck.prompts = <<[q |-> "start service", answer |-> FALSE]>>
    /\ result = Ret(FALSE, "PostgreSQL service not running")

Blanks == {" ", "\t"}

IsBlank(n) == \A i \in 1..Len(n) : n[i] \in Blanks

\* t is n without the blanks at its two ends
Trimmed(n, t) ==
    \E i \in 0..Len(n), j \in 0..Len(n) :
      /\ i + j <= Len(n)
      /\ t = SubSeq(n, i + 1, Len(n) - j)
      /\ \A k \in 1..i : n[k] \in Blanks
      /\ \A k \in (Len(n) - j + 1)..Len(n) : n[k] \in Blanks
      /\ t # <<>> => t[1] \notin Blanks /\ t[Len(t)] \notin Blanks

SameLetters(a, b) ==
    /\ Len(a) = Len(b)
    /\ \A i \in 1..Len(a) : a[i] = b[i] \/ UpperChar(a[i]) = b[i] \/ a[i] = UpperChar(b[i])

ProtectedNames == { <<"p", "o", "s", "t", "g", "r", "e", "s">>,
                    <<"t", "e", "m", "p", "l", "a", "t", "e", "0">>,
                    <<"t", "e", "m", "p", "l", "a", "t", "e", "1">> }

IsProtected(n) ==
    \E t \in { SubSeq(n, i, j) : i \in 1..Len(n), j \in 1..Len(n) } :
      Trimmed(n, t) /\ \E s \in ProtectedNames : SameLetters(t, s)

\* C7: drop_database issues dropdb only for a name that is not empty and not a
\* system database: an empty or all-blank name raises ValueError, the names
\* postgres, template0 and template1 in any letter case return (False, "Cannot
\* delete system database"), and in both cases no command is run.
C7_DropValidatesName ==
    /\ op = "drop" =>
         /\ IsBlank(args.db) => raised = "ValueError" /\ issued = {} /\ result = NoResult
         /\ IsProtected(args.db) =>
              /\ raised = "none"
              /\ result = Ret(FALSE, "Cannot delete system database")
              /\ issued = {}
    /\ (op \in {"drop", "delete-db"} /\ Issued("dropdb")) =>
         ~IsBlank(args.db) /\ ~IsProtected(args.db)

\* TEMPLATE0, in capitals, was refused
C7_Witness ==
    /\ op = "drop"
    /\ args.db = <<"T", "E", "M", "P", "L", "A", "T", "E", "0">>
    /\ result = Ret(FALSE, "Cannot delete system database")
    /\ issued = {}

\* C8: drop_database returns success exactly when dropdb exited 0 or reported
\* that the target database does not exist; every other failure of dropdb
\* comes back as (False, message).
C8_DropSuccessIffGone ==
    (op = "drop" /\ Issued("dropdb")) =>
      (result.ok <=> \/ log[1].out = "ok"
                     \/ log[1].out = "fail" /\ log[1].text = "database missing")

Asked(question, answer) ==
    \E i \in 1..Len(prompts) : prompts[i] = [q |-> question, answer |-> answer]

\* C9: delete-db issues the drop only if --force was given or the user said
\* yes to the confirmation; when the user declines, no drop is issued and the
\* command ends with exit code 0.
C9_DropNeedsForceOrYes ==
    op = "delete-db" =>
      /\ (Ran("drop") \/ Issued("dropdb")) =>
           args.force \/ Asked("delete database", TRUE)
      /\ Asked("delete database", FALSE) =>
           /\ ~Ran("drop")
           /\ ~Issued("dropdb")
           /\ exitCode = 0
      /\ ~args.force => (Ran("drop") => Len(prompts) = 1)

\* the user declined the deletion of an existing database
C9_Witness ==
    /\ op = "delete-db"
    /\ ~args.force
    /\ Succeeded("info")
    /\ Asked("delete database", FALSE)
    /\ exitCode = 0

\* C10: delete-db with --backup and without --force, whose backup dump reports
\* failure or raises, exits with code 1 without issuing a drop.
C10_FailedBackupAborts ==
    (op = "delete-db" /\ args.backup /\ ~args.force /\ Failed("backup")) =>
      /\ exitCode = 1
      /\ ~Ran("drop")
      /\ ~Issued("dropdb")
      /\ prompts = <<>>

\* the pg_dump of the backup failed on an SSH host
C10_Witness ==
    /\ op = "delete-db"
    /\ args.backup
    /\ ~args.force
    /\ args.src = "ssh"
    /\ Failed("backup")
    /\ log[Len(log)] = Entry("ssh", "pg_dump", {}, "fail", "none")
    /\ exitCode = 1

\* the commands uninstall_postgresql issues
UninstallCommandNames ==
    {"brew services stop", "brew uninstall", "rm -rf data", "detect os", "systemctl stop"}
    \cup { GetUninstallCommands("ubuntu")[k] : k \in 1..Len(GetUninstallCommands("ubuntu")) }

UninstallIssued == \E c \in issued : c.cmd \in UninstallCommandNames

\* the command has dumped database db
Dumped(db) ==
    \E i \in 1..Len(log) :
      log[i].cmd \in {"dump_database", "pg_dump"} /\ log[i].text = db /\ log[i].out = "ok"

\* C11: when uninstall runs with --backup-data on a host where PostgreSQL is
\* installed, at the moment it turns to uninstall_postgresql a dump of every
\* user database of the host has been created.
C11_BackupBeforeUninstall ==
    (op = "uninstall" /\ args.backup /\ pc = "uninstall") =>
      /\ Succeeded("installed")
      /\ \A db \in args.dbs : Dumped(db)

\* C12: uninstall issues uninstall commands only if PostgreSQL was found
\* installed, and --force was given or the user confirmed, and (with
\* --backup-data and without --force) backup_all_databases reported success;
\* in every other case none is issued.
C12_UninstallNeedsConsent ==
    op = "uninstall" =>
      /\ (UninstallIssued \/ Ran("uninstall") \/ pc \in {"uninstall", "uninstall loop", "verify"}) =>
           /\ Succeeded("installed")
           /\ args.force \/ Asked("uninstall", TRUE)
           /\ (args.backup /\ ~args.force) => Succeeded("backup")
      /\ Asked("uninstall", FALSE) => (pc = "done" /\ exitCode = 0 /\ ~UninstallIssued)
      /\ Failed("installed") => (pc = "done" /\ exitCode = 0 /\ ~UninstallIssued)

\* the user confirmed, after a backup, and the package was removed
C12_Witness ==
    /\ op = "uninstall"
    /\ ~args.force
    /\ args.backup
    /\ Asked("uninstall", TRUE)
    /\ Succeeded("uninstall")
    /\ \E c \in issued : c.cmd = "brew uninstall"

InstallCommandNames ==
    {"brew --version", "brew install", "brew services start", "detect os", "create superuser"}
    \cup UNION { { GetInstallationCommands(os)[k] : k \in 1..Len(GetInstallationCommands(os)) } :
                   os \in {"ubuntu", "centos", "macos", "alpine"} }

InstallIssued == \E c \in issued : c.cmd \in InstallCommandNames

\* C13: install without --force issues no installation command when the
\* installation check reports PostgreSQL installed; with --force it goes to
\* install_postgresql without making that check first.
C13_InstallChecksUnlessForced ==
    op = "install" =>
      /\ (~args.force /\ Succeeded("installed")) =>
           /\ ~InstallIssued
           /\ ~Ran("install")
           /\ exitCode = 0
      /\ (~args.force /\ Succeeded("config")) => Ran("installed")
      /\ (args.force /\ Succeeded("config")) =>
           /\ ~Ran("installed")
           /\ Ran("install")
           /\ Issued("psql --version") => Succeeded("install")
           /\ log # <<>> => log[1].cmd # "psql --version"

\* PostgreSQL was found installed and nothing was installed
C13_Witness ==
    /\ op = "install"
    /\ ~args.force
    /\ Succeeded("installed")
    /\ issued = { [via |-> args.src, cmd |-> "psql --version"] }
    /\ exitCode = 0

\* C14: sync-db rejects every invocation whose source and destination host
\* names are equal, whatever the other options (--dry-run included): it exits
\* with code 1 and sync_database is not called.
C14_SameHostRejected ==
    (args.cli /\ op \in {"sync", "sync-db"} /\ args.srcName = args.dstName) =>
      /\ op = "sync-db"
      /\ pc = "done"
      /\ exitCode = 1
      /\ issued = {}

PgDumpEntries == { log[i] : i \in { j \in 1..Len(log) : log[j].cmd = "pg_dump" } }

\* C15: no pg_dump command carries both --data-only and --schema-only: sync-db
\* given both flags exits with code 1 before a host configuration is resolved
\* or a command is run, and a dump builder adds --data-only when data_only is
\* set and --schema-only only when schema_only is set and data_only is not.
C15_DumpOptionsExclusive ==
    /\ \A c \in PgDumpEntries :
         /\ ~({"--data-only", "--schema-only"} \subseteq c.opts)
         /\ "--data-only" \in c.opts <=> args.data_only
         /\ "--schema-only" \in c.opts <=> (args.schema_only /\ ~args.data_only)
    /\ (args.cli /\ op \in {"sync", "sync-db"} /\ args.data_only /\ args.schema_only) =>
         /\ op = "sync-db"
         /\ pc = "done"
         /\ exitCode = 1
         /\ steps = <<Step("options", FALSE)>>
         /\ issued = {}

\* sync_database called with both flags dumped with --data-only alone
C15_Witness ==
    /\ op = "sync"
    /\ args.data_only
    /\ args.schema_only
    /\ \E c \in PgDumpEntries : c.opts = {"--data-only"} /\ c.out = "ok"

\* C16: sync-db with --dry-run, the two host configurations resolved, issues
\* no pre-flight, dump, transfer, restore or install command, asks nothing and
\* creates no temporary directory; it ends with exit code 0.
C16_DryRunDoesNothing ==
    (args.cli /\ op \in {"sync", "sync-db"} /\ args.dry_run) =>
      /\ op = "sync-db"
      /\ pc = "done"
      /\ issued = {}
      /\ log = <<>>
      /\ prompts = <<>>
      /\ tempDir = "unset"
      /\ lastCheck = NoCheck
      /\ Succeeded("config") => (Succeeded("dry run") /\ exitCode = 0)

\* a dry run between two configured hosts
C16_Witness ==
    /\ op = "sync-db"
    /\ args.dry_run
    /\ args.srcName = "server"
    /\ args.dstName = "laptop"
    /\ Succeeded("dry run")
    /\ exitCode = 0

\* C17: every configuration load_config accepts, and every file
\* validate_config_file reports valid, has at least one host; a file that
\* configures no host is rejected with "At least one host must be configured".
C17_AcceptedConfigHasHost ==
    /\ (op = "load-config" /\ raised = "none") => (config.loaded /\ config.hosts # {})
    /\ (op = "validate-config" /\ result.ok) => (config.loaded /\ config.hosts # {})
    /\ (op = "load-config" /\ args.file.kind = "mapping" /\ args.file.hosts # "null"
        /\ args.file.entries = {}) =>
         /\ raised = "ValueError"
         /\ result = Ret(FALSE, "At least one host must be configured")

AllowedNameChars ==
    { LowerLetters[i] : i \in 1..Len(LowerLetters) }
    \cup { UpperLetters[i] : i \in 1..Len(UpperLetters) }
    \cup {"0", "1", "2", "3", "4", "5", "6", "7", "8", "9", "_", "-"}

\* C18: in every configuration load_config accepts, each host name is made of
\* letters, digits, underscore and dash only and is at most 50 characters
\* long, and each host's port lies between 1 and 65535.
C18_AcceptedHostsWellFormed ==
    (op = "load-config" /\ raised = "none") =>
      \A h \in config.hosts :
        /\ h.name # <<>>
        /\ \A i \in 1..Len(h.name) : h.name[i] \in AllowedNameChars
        /\ Len(h.name) <= 50
        /\ h.port >= 1
        /\ h.port <= 65535

\* the lines of a `brew services list` output that name PostgreSQL with the
\* given status
PostgresqlListed(lines, status) ==
    \E i \in 1..Len(lines) :
      lines[i][1] \in {"postgresql", "postgresql@15"} /\ lines[i][2] = status

\* C19: on macOS check_service_status for a local host reports running only
\* when the PostgreSQL service itself is listed as started by `brew services
\* list`, and reports not running whenever the PostgreSQL service is listed
\* as stopped, whatever other services the listing shows.
C19_RunningFollowsPostgresqlLine ==
    (/\ op = "service"
     /\ args.src = "local"
     /\ system = "Darwin"
     /\ Len(log) = 1
     /\ log[1].out = "ok") =>
      /\ result.ok => PostgresqlListed(BrewListing(log[1].text), "started")
      /\ PostgresqlListed(BrewListing(log[1].text), "stopped") => ~result.ok

\* C20: _create_local_dump for a LocalHost source runs pg_dump exactly once,
\* returns (True, 'Database dump created ...') when it exits 0 and (False,
\* message) when it exits non-zero, times out or is not found, and never
\* raises.
C20_LocalDumpRunsPgDumpOnce ==
    op = "local-dump" =>
      /\ raised = "none"
      /\ Len(log) = 1
      /\ log[1].cmd = "pg_dump"
      /\ log[1].via = "local"
      /\ result.ok <=> log[1].out = "ok"
      /\ result.ok => result.msg = "Database dump created"
      /\ ~result.ok =>
           result.msg \in {"pg_dump failed", "Database dump timed out",
                           "pg_dump command not found"}

\* the commands _restore_local_dump is to run, in order
RestoreCommands(drop_existing) ==
    IF drop_existing THEN <<"dropdb", "createdb", "psql --file">>
    ELSE <<"createdb", "psql --file">>

\* C21: _restore_local_dump runs createdb then psql (dropdb first when
\* drop_existing is true), in that order and nothing else; a createdb failure
\* whose stderr lacks 'already exists' returns (False, 'Failed to create
\* database ...') without psql; the result is success exactly when psql
\* exits 0.
C21_RestoreRunsCreatedbThenPsql ==
    op = "local-restore" =>
      LET expected == RestoreCommands(args.drop_existing)
          last == log[Len(log)]
      IN /\ raised = "none"
         /\ Len(log) >= 1
         /\ Len(log) <= Len(expected)
         /\ \A i \in 1..Len(log) : log[i].cmd = expected[i] /\ log[i].via = "local"
         /\ (last.cmd = "createdb" /\ last.out = "fail") =>
              /\ last.text # "already exists"
              /\ result = Ret(FALSE, "Failed to create database")
         /\ result.ok <=> (last.cmd = "psql --file" /\ last.out = "ok")

\* C22: whenever sync_database returns failure after it created its
\* temporary dump directory, the directory was removed (rmtree was called on
\* it) before the return.
C22_FailedSyncRemovesTempDir ==
    (op = "sync" /\ pc = "done" /\ ~result.ok /\ Ran("dump")) =>
      tempDir = "removed" \/ Issued("rmtree")

Errored(cmds) == \E i \in 1..Len(cmds) : cmds[i].out \in {"timeout", "notfound"}

C24_PreviewRunsDataQuery ==
    (op = "preview" /\ args.src = "local") =>
      /\ Len(log) <= 2
      /\ Len(log) >= 1 => CommandArg(log[1].argv) = "column_query"
      /\ Len(log) = 2 => CommandArg(log[2].argv) = "sql_query"
      /\ result.ok =>
           /\ Len(log) = 2
           /\ result.columns = [i \in 1..Len(args.table.columns) |-> args.table.columns[i][1]]
           /\ result.rows =
                ParseRows(PsqlOutput(<<"psql", "--tuples-only", "--command", "sql_query">>,
                                     args.table),
                          result.columns)

\* the OS a logged detection command reported, "none" when detection failed
DetectedOs(d) == IF d.out = "ok" /\ d.text # "unparsable" THEN d.text ELSE "none"

\* C25: _install_ssh_postgresql first detects the remote OS, then runs the
\* installation commands of that OS one at a time in table order, stopping
\* at the first that exits non-zero, and runs the superuser setup only after
\* every installation command succeeded; when the detection fails or the OS
\* has no command table, no installation or setup command is run and the
\* result is failure.
C25_InstallSshInOrder ==
    op = "install-ssh" =>
      LET table == GetInstallationCommands(DetectedOs(log[1]))
      IN /\ raised = "none"
         /\ Len(log) >= 1
         /\ log[1].cmd = "detect os"
         /\ Len(log) <= Len(table) + 2
         /\ \A i \in 2..Len(log) :
              /\ log[i].via = "ssh"
              /\ log[i].cmd = IF i - 1 <= Len(table) THEN table[i - 1] ELSE "create superuser"
              /\ i < Len(log) => log[i].out = "ok"
         /\ table = <<>> => Len(log) = 1 /\ ~result.ok
         /\ result.ok <=> (table # <<>> /\ Len(log) = Len(table) + 2
                           /\ log[Len(log)].out = "ok")

\* on Ubuntu the second installation command exited non-zero: the two later
\* commands and the superuser setup were not run
C25_Witness ==
    /\ op = "install-ssh"
    /\ Len(log) = 3
    /\ log[1].text = "ubuntu"
    /\ log[3] = E("ssh", "Installing PostgreSQL", "fail")
    /\ ~result.ok

====
